---- MODULE Spec2Model ----
(***************************************************************************)
(* A model of the venue-finder CRM server: the Express pipeline of         *)
(* src/unnamed/part_005 (the server's index.ts), the client and venue      *)
(* routers, the authentication middleware, the OAuth upsert and the error  *)
(* translator, over a relational store with the foreign keys of the design *)
(* document.  Every `await` of a handler is one step of the model, so       *)
(* requests interleave exactly where the event loop lets them.              *)
(***************************************************************************)
EXTENDS Integers, Sequences, FiniteSets, TLC

\* ------------------------------------------------------------------ bounds
MaxReq == 2          \* request slots that can be in flight together
MaxClients == 1      \* client ids the serial column hands out
MaxVenues == 1       \* venue ids the serial column hands out
MaxInserts == 2      \* proposals, proposal-venues and bookings inserted, together
MaxLogins == 2       \* OAuth logins that can be in flight together
MaxUsers == 4        \* user ids the serial column hands out
MaxNumber == 3       \* the largest small number given as page or limit
MaxTotal == 25       \* rows a paginated query counts
MaxPage == 5         \* the largest page asked of createPaginatedResult
MaxLimit == 5        \* the largest limit asked of createPaginatedResult
MaxIps == 2          \* client IP addresses
MaxOver == 2         \* requests of one IP counted beyond a limiter's max in a window
MaxOtherHits == 2    \* requests of every IP but the first in a window

\* ------------------------------------------------------- JavaScript values
Undef == "<undefined>"
Null == "<null>"

\* x || null
OrNull(x) == IF x \in {Undef, Null, ""} THEN Null ELSE x

\* String.prototype.trim on the strings the model uses
Trim(s) == IF s = " " THEN "" ELSE s

IsString(x) == x \notin {Undef, Null}

Slots == 1..MaxReq

VARIABLES
  users,           \* User rows: id -> [email, name, role, provider, providerId]
  clients,         \* Client rows: id -> [name, company, ..., createdBy]
  venues,          \* Venue rows: id -> [name, location, ..., createdBy]
  proposals,       \* Proposal rows: id -> [clientId]
  proposalVenues,  \* ProposalVenue rows: id -> [proposalId, venueId]
  bookings,        \* Booking rows: id -> [proposalId, clientId, venueId]
  nextId,          \* the serial columns' next values, one per table
  req,             \* the requests in flight, one record per slot
  deleted,         \* the <<path, id>> whose DELETE has been answered 200
  login,           \* the OAuth logins in flight, one record per slot
  fault,           \* the error handed to the error translator, and its reply
  loggedOut,       \* the ids of the users whose logout has been answered 200
  calc,            \* the last call of a library function: its arguments and result
  window           \* the rate limiters' counters: limiter -> IP -> [hits, passed, refused]

db == <<users, clients, venues, proposals, proposalVenues, bookings, nextId>>
vars == <<users, clients, venues, proposals, proposalVenues, bookings, nextId,
          req, deleted, login, fault, loggedOut, calc, window>>

\* ------------------------------------------------------------ the database
\* A table is a function from the ids of its rows to the rows.
Without(table, id) == [i \in DOMAIN table \ {id} |-> table[i]]
With(table, id, row) == [i \in DOMAIN table \cup {id} |-> IF i = id THEN row ELSE table[i]]
Empty == [i \in {} |-> 0]

\* prisma.proposal.count({ where: { clientId } }) and its three siblings
ProposalCountOfClient(c) == Cardinality({p \in DOMAIN proposals : proposals[p].clientId = c})
BookingCountOfClient(c) == Cardinality({b \in DOMAIN bookings : bookings[b].clientId = c})
ProposalVenueCountOfVenue(v) ==
  Cardinality({x \in DOMAIN proposalVenues : proposalVenues[x].venueId = v})
BookingCountOfVenue(v) == Cardinality({b \in DOMAIN bookings : bookings[b].venueId = v})

\* The rows a DELETE of client c removes through ON DELETE CASCADE:
\* proposals.client_id, then proposal_venues.proposal_id.
CascadeProposalsOfClient(c) == {p \in DOMAIN proposals : proposals[p].clientId = c}
CascadeProposalVenuesOfProposals(ps) ==
  {x \in DOMAIN proposalVenues : proposalVenues[x].proposalId \in ps}
CascadeProposalVenuesOfVenue(v) ==
  {x \in DOMAIN proposalVenues : proposalVenues[x].venueId = v}

\* bookings.client_id, bookings.proposal_id and bookings.venue_id carry no
\* ON DELETE rule: a delete that would orphan a booking is refused.
ClientDeleteRestricted(c) ==
  \E b \in DOMAIN bookings :
     \/ bookings[b].clientId = c
     \/ bookings[b].proposalId \in CascadeProposalsOfClient(c)
VenueDeleteRestricted(v) == \E b \in DOMAIN bookings : bookings[b].venueId = v

\* The outcome of prisma.client.delete({ where: { id } }): "ok" or the
\* Prisma error code it throws.
ClientDeleteOutcome(c) ==
  IF c \notin DOMAIN clients THEN "P2025"
  ELSE IF ClientDeleteRestricted(c) THEN "P2003"
  ELSE "ok"
VenueDeleteOutcome(v) ==
  IF v \notin DOMAIN venues THEN "P2025"
  ELSE IF VenueDeleteRestricted(v) THEN "P2003"
  ELSE "ok"

\* The tables after a successful delete of client c, and of venue v.
ClientsAfterDelete(c) == Without(clients, c)
ProposalsAfterClientDelete(c) ==
  [p \in DOMAIN proposals \ CascadeProposalsOfClient(c) |-> proposals[p]]
ProposalVenuesAfterClientDelete(c) ==
  [x \in DOMAIN proposalVenues \
         CascadeProposalVenuesOfProposals(CascadeProposalsOfClient(c))
     |-> proposalVenues[x]]
VenuesAfterSoftDelete(v) == venues
VenuesAfterDelete(v) == Without(venues, v)
ProposalVenuesAfterVenueDelete(v) ==
  [x \in DOMAIN proposalVenues \ CascadeProposalVenuesOfVenue(v) |-> proposalVenues[x]]

\* prisma.client.update({ where: { id }, data }): the fields of data
\* replace the row's, every other field keeps its value.
Updated(row, data) == [f \in DOMAIN row |-> IF f \in DOMAIN data THEN data[f] ELSE row[f]]

\* --------------------------------------------------------------- replies
\* A reply is [status, body]; the body's keys are the keys the code writes.
NoReply == [status |-> 0, body |-> Empty]
NoDetails == Empty

\* The envelope the route handlers, the 404 handlers, validateRequest and
\* the rate limiter write by hand.
RouteError(status, code, message, path) ==
  [status |-> status,
   body |-> [success |-> FALSE,
             error |-> [code |-> code, message |-> message],
             timestamp |-> "now",
             path |-> path]]

\* The envelope authenticateToken writes: no timestamp, no path.
AuthError(status, code, message) ==
  [status |-> status,
   body |-> [success |-> FALSE, error |-> [code |-> code, message |-> message]]]

RouteData(status, data) ==
  [status |-> status, body |-> [success |-> TRUE, data |-> data, timestamp |-> "now"]]
RouteMessage(status, message) ==
  [status |-> status, body |-> [success |-> TRUE, message |-> message, timestamp |-> "now"]]

\* ------------------------------------------------- the error translator
\* new AppError(message, statusCode, code, field, details)
AppError(message, statusCode, code, field, details) ==
  [name |-> "AppError", message |-> message, statusCode |-> statusCode,
   code |-> code, field |-> field, details |-> details]

BadRequest(message, field, details) == AppError(message, 400, "BAD_REQUEST", field, details)
Unauthorized(message) == AppError(message, 401, "UNAUTHORIZED", Undef, NoDetails)
NotFound(message) == AppError(message, 404, "NOT_FOUND", Undef, NoDetails)
ConflictAsBadRequest(message, details) == AppError(message, 400, "BAD_REQUEST", Undef, details)
Conflict(message, details) == AppError(message, 409, "CONFLICT", Undef, details)
Internal(message) == AppError(message, 500, "INTERNAL_ERROR", Undef, NoDetails)

\* An error thrown at the server: name is the class, code and target are
\* those of a PrismaClientKnownRequestError (target <<>> when meta has none).
Thrown(name, code, target, message) ==
  [name |-> name, code |-> code, target |-> target, message |-> message]

\* target?.[0] || 'field'
TargetField(target) ==
  IF Len(target) > 0 /\ target[1] # "" THEN target[1] ELSE "field"

\* A translator without the two relation cases.
TranslatePrismaErrorNoRelations(err) ==
  CASE err.code = "P2002" ->
         Conflict(<<"A record with this ", TargetField(err.target), " already exists">>,
                  [field |-> TargetField(err.target), constraint |-> "unique"])
    [] err.code = "P2025" -> NotFound(<<"Record not found">>)
    [] OTHER -> Internal(<<"Database operation failed">>)

\* handlePrismaError of middleware/errorHandler.ts
TranslatePrismaError(err) ==
  CASE err.code = "P2002" ->
         Conflict(<<"A record with this ", TargetField(err.target), " already exists">>,
                  [field |-> TargetField(err.target), constraint |-> "unique"])
    [] err.code = "P2025" -> NotFound(<<"Record not found">>)
    [] err.code = "P2003" ->
         BadRequest(<<"Cannot perform this operation due to related records">>, Undef,
                    [constraint |-> "foreign_key"])
    [] err.code = "P2014" ->
         BadRequest(<<"Required relation is missing">>, Undef,
                    [constraint |-> "required_relation"])
    [] OTHER -> Internal(<<"Database operation failed">>)

\* The if/else chain of errorHandler: the ApiError a thrown error becomes.
Translate(err) ==
  CASE err.name = "AppError" -> err
    [] err.name = "PrismaClientKnownRequestError" -> TranslatePrismaError(err)
    [] err.name = "PrismaClientValidationError" ->
         BadRequest(<<"Invalid data provided">>, Undef,
                    [type |-> "validation", details |-> err.message])
    [] err.name = "ValidationError" ->
         BadRequest(<<"Validation failed">>, Undef, [text |-> err.message])
    [] err.name = "CastError" -> BadRequest(<<"Invalid ID format">>, Undef, NoDetails)
    [] err.name = "JsonWebTokenError" -> Unauthorized(<<"Invalid token">>)
    [] err.name = "TokenExpiredError" -> Unauthorized(<<"Token expired">>)
    [] err.name = "SyntaxError" /\ "JSON" \in {err.message[i] : i \in DOMAIN err.message} ->
         BadRequest(<<"Invalid JSON format">>, Undef, NoDetails)
    [] err.name = "PayloadTooLargeError" ->
         BadRequest(<<"Request payload too large">>, Undef,
                    [limit |-> "10mb", type |-> "payload_size"])
    [] OTHER -> Internal(<<"Internal server error">>)

\* The error object of the reply: code and message, then field and details
\* only when they are truthy.
ErrorObject(e) ==
  LET keys == {"code", "message"}
                \cup (IF e.field \notin {Undef, Null, ""} THEN {"field"} ELSE {})
                \cup (IF DOMAIN e.details # {} THEN {"details"} ELSE {})
  IN [k \in keys |->
        CASE k = "code" -> e.code
          [] k = "message" -> e.message
          [] k = "field" -> e.field
          [] k = "details" -> e.details]

\* errorHandler: the reply to a request whose middleware or handler passed
\* err to next.
ErrorHandler(err, path) ==
  LET e == Translate(err)
  IN [status |-> e.statusCode,
      body |-> [success |-> FALSE,
                error |-> ErrorObject(e),
                timestamp |-> "now",
                path |-> path]]

\* ------------------------------------------------------------ validation
\* The strings of the model: "" and " " (blank), "a" (text), "a@b.c" (an
\* e-mail address), Long (longer than any max of the schemas).
Long == "<a string of 600 characters>"
IsEmail(v) == v = "a@b.c"

\* Joi.string().trim().max(n).allow('').optional()
OptionalText(v) == v = Undef \/ (IsString(v) /\ v # Long)
\* Joi.string().trim().min(1).max(255).required(): '' after trim is refused
RequiredName(v) == IsString(v) /\ Trim(v) # "" /\ v # Long
\* Joi.string().trim().min(1).max(255).optional()
OptionalName(v) == v = Undef \/ RequiredName(v)
\* Joi.string().email().allow('').optional()
OptionalEmail(v) == v \in {Undef, ""} \/ IsEmail(v)
\* Joi.string().allow('').optional()
OptionalNotes(v) == v = Undef \/ IsString(v)

\* The numerals of the model, in thousandths; NaN for what is no number.
NaN == "NaN"
IsNumeral(s) ==
  s \in {"0", "1", "2", "3", "15.5", "15.555", "100", "100.001", "101", "-0.001", "-1"}
Thousandths(s) ==
  CASE s = "0" -> 0
    [] s = "1" -> 1000
    [] s = "2" -> 2000
    [] s = "3" -> 3000
    [] s = "15.5" -> 15500
    [] s = "15.555" -> 15555
    [] s = "100" -> 100000
    [] s = "100.001" -> 100001
    [] s = "101" -> 101000
    [] s = "-1" -> -1000
    [] s = "-0.001" -> -1
\* The schema's number without its min and max.
OptionalCommissionAnyNumber(v) == v = Undef \/ IsNumeral(v)
\* Joi.number().min(0).max(100).precision(2), optional or with a default
OptionalCommission(v) ==
  v = Undef \/ (IsNumeral(v) /\ Thousandths(v) >= 0 /\ Thousandths(v) <= 100000)
\* Joi.number().integer().positive().required(), of commonSchemas.id
ValidId(id) == id > 0

ClientKeys == <<"name", "company", "contactName", "email", "phone", "notes", "createdBy">>
VenueKeys == <<"name", "location", "contactName", "email", "phone",
               "standardCommission", "notes", "createdBy">>

\* clientCreateSchema and clientUpdateSchema: does key k of the body pass?
\* createdBy stands for any key the schema does not name (object.unknown).
ClientKeyOk(body, k, create) ==
  CASE k = "name" -> IF create THEN RequiredName(body.name) ELSE OptionalName(body.name)
    [] k \in {"company", "contactName", "phone"} -> OptionalText(body[k])
    [] k = "email" -> OptionalEmail(body.email)
    [] k = "notes" -> OptionalNotes(body.notes)
    [] k = "createdBy" -> body.createdBy = Undef

\* venueCreateSchema and venueUpdateSchema
VenueKeyOk(body, k, create) ==
  CASE k = "name" -> IF create THEN RequiredName(body.name) ELSE OptionalName(body.name)
    [] k \in {"location", "contactName", "phone"} -> OptionalText(body[k])
    [] k = "email" -> OptionalEmail(body.email)
    [] k = "standardCommission" -> OptionalCommission(body.standardCommission)
    [] k = "notes" -> OptionalNotes(body.notes)
    [] k = "createdBy" -> body.createdBy = Undef

\* clientQuerySchema and venueQuerySchema, page and limit
QueryKeys == <<"page", "limit">>
IsInteger(s) == IsNumeral(s) /\ Thousandths(s) % 1000 = 0
QueryKeyOk(q, k) ==
  CASE k = "page" -> q.page = Undef \/ (IsInteger(q.page) /\ Thousandths(q.page) >= 1000)
    [] k = "limit" ->
         q.limit = Undef \/ (IsInteger(q.limit) /\ Thousandths(q.limit) >= 1000
                                                /\ Thousandths(q.limit) <= 100000)

\* The route of a request: the path pattern and the method.
IsItem(path) == path \in {"clients/:id", "venues/:id"}
IsCollection(path) == path \in {"clients", "venues"}
IsClientPath(path) == path \in {"clients", "clients/:id"}
IsLogout(in) == in.path = "auth/logout" /\ in.method = "POST"
Routed(in) ==
  \/ IsCollection(in.path) /\ in.method \in {"GET", "POST"}
  \/ IsItem(in.path) /\ in.method \in {"GET", "PUT", "DELETE"}
  \/ IsLogout(in)

\* validateRequest: the failing fields, body first, then query, then params;
\* the schemas are those the route passes.
BodyErrors(in) ==
  IF in.method \notin {"POST", "PUT"} \/ IsLogout(in) THEN <<>>
  ELSE IF IsClientPath(in.path)
    THEN SelectSeq(ClientKeys, LAMBDA k : ~ClientKeyOk(in.body, k, in.method = "POST"))
    ELSE SelectSeq(VenueKeys, LAMBDA k : ~VenueKeyOk(in.body, k, in.method = "POST"))
QueryErrors(in) ==
  IF in.method = "GET" /\ IsCollection(in.path)
    THEN SelectSeq(QueryKeys, LAMBDA k : ~QueryKeyOk(in.query, k))
    ELSE <<>>
ParamErrors(in) ==
  IF IsItem(in.path) /\ ~ValidId(in.id) THEN <<"id">> ELSE <<>>
Prefixed(prefix, fields) == [i \in DOMAIN fields |-> <<prefix, fields[i]>>]
\* A validateRequest that stops at the first failing field of each part.
First(fields) == IF fields = <<>> THEN <<>> ELSE <<Head(fields)>>
ValidationErrorsAbortEarly(in) ==
  Prefixed("", First(BodyErrors(in))) \o Prefixed("query.", First(QueryErrors(in)))
    \o Prefixed("params.", First(ParamErrors(in)))
ValidationErrors(in) ==
  Prefixed("", BodyErrors(in)) \o Prefixed("query.", QueryErrors(in))
    \o Prefixed("params.", ParamErrors(in))

ValidationReply(in) ==
  [status |-> 400,
   body |-> [success |-> FALSE,
             error |-> [code |-> "VALIDATION_ERROR",
                        message |-> <<"Request validation failed">>,
                        details |-> ValidationErrors(in)],
             timestamp |-> "now",
             path |-> in.path]]

\* -------------------------------------------------------------- db-utils
\* handlePrismaError of lib/db-utils: the message the route handlers put
\* in their 500 replies.
DbUtilsMessage(err) ==
  IF err.name = "PrismaClientKnownRequestError"
    THEN CASE err.code = "P2002" -> <<"A record with this information already exists">>
           [] err.code = "P2025" -> <<"Record not found">>
           [] err.code = "P2003" -> <<"Cannot delete record due to related data">>
           [] err.code = "P2014" -> <<"Invalid data provided">>
           [] OTHER -> <<"Database error: ">> \o err.message
    ELSE IF err.name = "PrismaClientValidationError"
      THEN <<"Invalid data format provided">>
      ELSE err.message

\* The error prisma throws for an outcome other than "ok".
PrismaError(code) ==
  Thrown("PrismaClientKnownRequestError", code, <<>>, <<"prisma: ", code>>)

\* canDeleteClient and canDeleteVenue, from the two counts they await.
DeleteReason(what, first, second) ==
  <<what, " has ", ToString(first), " proposal(s) and ", ToString(second), " booking(s)">>
CanDeleteClientBothCounts(proposalCount, bookingCount) ==
  IF proposalCount > 0 /\ bookingCount > 0
    THEN [canDelete |-> FALSE,
          reason |-> DeleteReason("Client", proposalCount, bookingCount)]
    ELSE [canDelete |-> TRUE]
CanDeleteClient(proposalCount, bookingCount) ==
  IF proposalCount > 0 \/ bookingCount > 0
    THEN [canDelete |-> FALSE,
          reason |-> DeleteReason("Client", proposalCount, bookingCount)]
    ELSE [canDelete |-> TRUE]
CanDeleteVenueBothCounts(proposalVenueCount, bookingCount) ==
  IF proposalVenueCount > 0 /\ bookingCount > 0
    THEN [canDelete |-> FALSE,
          reason |-> DeleteReason("Venue", proposalVenueCount, bookingCount)]
    ELSE [canDelete |-> TRUE]
CanDeleteVenueLinksOnly(proposalVenueCount, bookingCount) ==
  IF proposalVenueCount > 0
    THEN [canDelete |-> FALSE,
          reason |-> DeleteReason("Venue", proposalVenueCount, bookingCount)]
    ELSE [canDelete |-> TRUE]
CanDeleteVenue(proposalVenueCount, bookingCount) ==
  IF proposalVenueCount > 0 \/ bookingCount > 0
    THEN [canDelete |-> FALSE,
          reason |-> DeleteReason("Venue", proposalVenueCount, bookingCount)]
    ELSE [canDelete |-> TRUE]

Max(a, b) == IF a >= b THEN a ELSE b
Min(a, b) == IF a <= b THEN a ELSE b
\* The number a query string stands for (the schema has let only integers by).
Num(s) == Thousandths(s) \div 1000

\* A value of options.page or options.limit: undefined, a number, or the
\* string of a query (req.query is passed on as it came).
Missing == [kind |-> "undefined", n |-> 0]
Number(n) == [kind |-> "number", n |-> n]
QueryOption(raw) ==
  IF raw = Undef THEN Missing
  ELSE IF raw = "" THEN [kind |-> "empty", n |-> 0]
  ELSE [kind |-> "string", n |-> Num(raw)]
\* value || fallback: undefined, 0 and '' are falsy, the string '0' is not.
OrDefault(value, fallback) ==
  IF value.kind \in {"undefined", "empty"} \/ (value.kind = "number" /\ value.n = 0)
    THEN fallback
    ELSE value.n

\* An applyPagination with no upper limit.
ApplyPaginationUncapped(optionsPage, optionsLimit) ==
  LET page == Max(1, OrDefault(optionsPage, 1))
      limit == Max(1, OrDefault(optionsLimit, 10))
  IN [skip |-> (page - 1) * limit, take |-> limit, page |-> page, limit |-> limit]
\* applyPagination({ page, limit })
ApplyPagination(optionsPage, optionsLimit) ==
  LET page == Max(1, OrDefault(optionsPage, 1))
      limit == Min(100, Max(1, OrDefault(optionsLimit, 10)))
  IN [skip |-> (page - 1) * limit, take |-> limit, page |-> page, limit |-> limit]

\* Math.floor(total / limit)
FloorDiv(a, b) == a \div b
\* Math.ceil(total / limit)
CeilDiv(a, b) == (a + b - 1) \div b
\* createPaginatedResult(data, total, page, limit)
CreatePaginatedResult(data, total, page, limit) ==
  [data |-> data,
   pagination |-> [page |-> page, limit |-> limit, total |-> total,
                   totalPages |-> CeilDiv(total, limit),
                   hasNext |-> page < CeilDiv(total, limit),
                   hasPrev |-> page > 1]]

\* ------------------------------------------------------- lib/permissions
\* enum Permission
Permission ==
  {"manage_users", "view_all_users",
   "create_client", "view_client", "update_client", "delete_client", "view_all_clients",
   "create_venue", "view_venue", "update_venue", "delete_venue", "view_all_venues",
   "create_proposal", "view_proposal", "update_proposal", "delete_proposal",
   "view_all_proposals",
   "create_booking", "view_booking", "update_booking", "delete_booking",
   "view_all_bookings",
   "create_commission_claim", "view_commission_claim", "update_commission_claim",
   "delete_commission_claim", "view_all_commission_claims",
   "view_reports", "view_all_reports", "export_data",
   "manage_system_settings", "view_audit_logs"}

\* enum UserRole
UserRole == {"admin", "consultant"}

\* ROLE_PERMISSIONS[role] || []
RolePermissions(role) ==
  CASE role = "admin" ->
         {"manage_users", "view_all_users",
          "create_client", "view_client", "update_client", "delete_client",
          "view_all_clients",
          "create_venue", "view_venue", "update_venue", "delete_venue", "view_all_venues",
          "create_proposal", "view_proposal", "update_proposal", "delete_proposal",
          "view_all_proposals",
          "create_booking", "view_booking", "update_booking", "delete_booking",
          "view_all_bookings",
          "create_commission_claim", "view_commission_claim", "update_commission_claim",
          "delete_commission_claim", "view_all_commission_claims",
          "view_reports", "view_all_reports", "export_data",
          "manage_system_settings", "view_audit_logs"}
    [] role = "consultant" ->
         {"create_client", "view_client", "update_client", "delete_client",
          "create_venue", "view_venue", "update_venue", "delete_venue",
          "create_proposal", "view_proposal", "update_proposal", "delete_proposal",
          "create_booking", "view_booking", "update_booking", "delete_booking",
          "create_commission_claim", "view_commission_claim", "update_commission_claim",
          "delete_commission_claim",
          "view_reports"}
    [] OTHER -> {}

\* A hasPermission that takes a role it does not know for a consultant.
HasPermissionDefaultConsultant(user, permission) ==
  permission \in RolePermissions(IF user.role = "admin" THEN "admin" ELSE "consultant")
\* hasPermission(user, permission)
HasPermission(user, permission) == permission \in RolePermissions(user.role)

\* A canAccessOwnResource that knows no admin.
CanAccessOwnResourceOwnerOnly(user, resourceCreatorId) == user.id = resourceCreatorId
\* canAccessOwnResource(user, resourceCreatorId)
CanAccessOwnResource(user, resourceCreatorId) ==
  IF user.role = "admin" THEN TRUE ELSE user.id = resourceCreatorId

\* What getResourceCreatorId(req) comes to: a creator's id, null, or an
\* error thrown.
Creator(id) == [kind |-> "id", id |-> id]
NullCreator == [kind |-> "null", id |-> 0]
LookupThrows == [kind |-> "throws", id |-> 0]

\* The second handler of requireResourceAccess, for the user
\* authenticateToken has set: it calls next, or it answers.
RequireResourceAccess(user, lookup) ==
  CASE lookup.kind = "throws" ->
         [next |-> FALSE,
          reply |-> AuthError(500, "INTERNAL_ERROR", <<"Failed to verify resource access">>)]
    [] lookup.kind = "null" ->
         [next |-> FALSE,
          reply |-> AuthError(404, "RESOURCE_NOT_FOUND", <<"Resource not found">>)]
    [] OTHER ->
         IF user.role = "admin" \/ user.id = lookup.id
           THEN [next |-> TRUE, reply |-> NoReply]
           ELSE [next |-> FALSE,
                 reply |-> AuthError(403, "INSUFFICIENT_PERMISSIONS",
                                     <<"You can only access resources you created">>)]

\* ------------------------------------------------------- the route bodies
\* cleanedData of POST /api/clients: the body's keys, the blank optional
\* fields turned to null, createdBy the requester.
ClientCreateDataBodyFirst(body, userId) ==
  [name |-> body.name,
   company |-> OrNull(body.company),
   contactName |-> OrNull(body.contactName),
   email |-> OrNull(body.email),
   phone |-> OrNull(body.phone),
   notes |-> OrNull(body.notes),
   createdBy |-> IF body.createdBy = Undef THEN 1 ELSE Thousandths(body.createdBy) \div 1000]
ClientCreateData(body, userId) ==
  [name |-> body.name,
   company |-> OrNull(body.company),
   contactName |-> OrNull(body.contactName),
   email |-> OrNull(body.email),
   phone |-> OrNull(body.phone),
   notes |-> OrNull(body.notes),
   createdBy |-> userId]

\* cleanedData of PUT /api/clients/:id: only the keys the body carries.
ClientUpdateDataAsSent(body) ==
  [k \in {f \in {"name", "company", "contactName", "email", "phone", "notes"} :
            body[f] # Undef}
     |-> body[k]]
ClientUpdateData(body) ==
  [k \in {f \in {"name", "company", "contactName", "email", "phone", "notes"} :
            body[f] # Undef}
     |-> IF k = "name" THEN body.name ELSE OrNull(body[k])]

\* DECIMAL(5,2) of a number given in thousandths: hundredths, half away
\* from zero.
ToCents(t) == IF t >= 0 THEN (t + 5) \div 10 ELSE 0 - ((5 - t) \div 10)

\* cleanedData of POST /api/venues; the column's default stands in when
\* the body has no standardCommission.
VenueCreateData(body, userId) ==
  [name |-> body.name,
   location |-> OrNull(body.location),
   contactName |-> OrNull(body.contactName),
   email |-> OrNull(body.email),
   phone |-> OrNull(body.phone),
   standardCommission |->
     IF body.standardCommission = Undef THEN 0
     ELSE ToCents(Thousandths(body.standardCommission)),
   notes |-> OrNull(body.notes),
   createdBy |-> userId]

\* A cleanedData that carries every key, given or not.
VenueUpdateDataEveryKey(body) ==
  [k \in {"name", "location", "contactName", "email", "phone", "standardCommission",
          "notes"}
     |-> CASE k = "name" -> OrNull(body.name)
           [] k = "standardCommission" ->
                IF body.standardCommission = Undef THEN 0
                ELSE ToCents(Thousandths(body.standardCommission))
           [] OTHER -> OrNull(body[k])]
\* cleanedData of PUT /api/venues/:id
VenueUpdateData(body) ==
  [k \in {f \in {"name", "location", "contactName", "email", "phone",
                 "standardCommission", "notes"} : body[f] # Undef}
     |-> CASE k = "name" -> body.name
           [] k = "standardCommission" -> ToCents(Thousandths(body.standardCommission))
           [] OTHER -> OrNull(body[k])]

\* ------------------------------------------------------------- requests
\* A bearer token: absent (no Authorization header), nosecond (a header
\* with no second space-separated part), bad (fails jwt.verify: malformed,
\* forged or expired) or valid, carrying the claims it was signed with.
Token(kind, id, role) == [kind |-> kind, id |-> id, role |-> role]
NoToken == Token("absent", 0, "")
NoUser == [id |-> 0, role |-> ""]

NoInput == [method |-> "", path |-> "", id |-> 0, token |-> NoToken,
            body |-> Empty, query |-> Empty, edge |-> "pass"]

\* A slot: where the request's handler stands (pc), the request (in), what
\* the handler has awaited so far, the reply, and what the run has seen:
\*   handler       the route handler (the last function of the route) ran
\*   found         createdBy of the row the handler's findUnique returned
\*   goneAtArrival the target's DELETE had been answered 200 on arrival
\*   depsAtArrival the target was stored and referenced on arrival
\*   thrown        the code of the error the handler's database write threw
\*   depsAtWrite   a row referenced the target when the database delete ran
IdleSlot ==
  [pc |-> "idle", in |-> NoInput, user |-> NoUser, got |-> {},
   proposalCount |-> 0, bookingCount |-> 0, rows |-> {}, total |-> 0,
   reply |-> NoReply, handler |-> FALSE, found |-> 0, goneAtArrival |-> FALSE,
   depsAtArrival |-> FALSE, thrown |-> "", depsAtWrite |-> FALSE]

Table(path) == IF IsClientPath(path) THEN clients ELSE venues
Stored(path, id) == id \in DOMAIN Table(path)
Referenced(path, id) ==
  IF IsClientPath(path)
    THEN ProposalCountOfClient(id) > 0 \/ BookingCountOfClient(id) > 0
    ELSE ProposalVenueCountOfVenue(id) > 0 \/ BookingCountOfVenue(id) > 0

Finish(r, reply) == req' = [req EXCEPT ![r].pc = "done", ![r].reply = reply]

\* What answers before any router is reached: cors (its origin callback
\* passes an Error to next), the rate limiter, the JSON body parser (a
\* body that is no JSON, a JSON body over 10mb), and bodySizeLimit (a body
\* over 10mb of a type the parsers leave alone).
EdgeReply(in) ==
  CASE in.edge = "cors" ->
         ErrorHandler(Thrown("Error", "", <<>>, <<"Not allowed by CORS">>), in.path)
    [] in.edge = "limited" ->
         RouteError(429, "RATE_LIMIT_EXCEEDED",
                    <<"Too many requests, please try again later">>, in.path)
    [] in.edge = "badjson" ->
         ErrorHandler(Thrown("SyntaxError", "", <<>>,
                             <<"Unexpected token in ", "JSON">>), in.path)
    [] in.edge = "toolarge" ->
         ErrorHandler(Thrown("PayloadTooLargeError", "", <<>>,
                             <<"request entity too large">>), in.path)
    [] in.edge = "toolargeraw" ->
         RouteError(413, "PAYLOAD_TOO_LARGE",
                    <<"Request body too large. Maximum size is ", "10mb">>, in.path)

\* What answers a request no router takes: app.get('/api'), then the two
\* 404 handlers.
FallThroughReply(in) ==
  IF in.path = "api"
    THEN IF in.method = "GET"
           THEN [status |-> 200, body |-> [message |-> <<"Venue Finder CRM API">>]]
           ELSE RouteError(404, "NOT_FOUND", <<"Endpoint not found">>, in.path)
    ELSE RouteError(404, "NOT_FOUND", <<"API endpoint not found">>, in.path)

\* authenticateToken up to its await: the header and jwt.verify.
TokenReply(token) ==
  CASE token.kind \in {"absent", "nosecond"} ->
         AuthError(401, "MISSING_TOKEN", <<"Access token is required">>)
    [] token.kind = "bad" ->
         AuthError(401, "INVALID_TOKEN", <<"Invalid or expired token">>)
    [] OTHER -> NoReply

\* if (!dbUser) of authenticateToken, for the id the token carries
UserExistsUnchecked(id) == TRUE
UserExistsAndNotLoggedOut(id) == id \in DOMAIN users /\ id \notin loggedOut
UserExists(id) == id \in DOMAIN users

\* authenticateToken as a whole: the reply it sends, or the user it
\* attaches to the request before next().
AuthenticateTokenStoredRole(token) ==
  IF TokenReply(token) # NoReply THEN [user |-> NoUser, reply |-> TokenReply(token)]
  ELSE IF ~UserExists(token.id)
    THEN [user |-> NoUser,
          reply |-> AuthError(401, "USER_NOT_FOUND", <<"User no longer exists">>)]
    ELSE [user |-> [id |-> token.id, role |-> users[token.id].role], reply |-> NoReply]
AuthenticateToken(token) ==
  IF TokenReply(token) # NoReply THEN [user |-> NoUser, reply |-> TokenReply(token)]
  ELSE IF ~UserExists(token.id)
    THEN [user |-> NoUser,
          reply |-> AuthError(401, "USER_NOT_FOUND", <<"User no longer exists">>)]
    ELSE [user |-> [id |-> token.id, role |-> token.role], reply |-> NoReply]

\* requireRole(roles), on the user authenticateToken attached
RequireRole(user, roles) ==
  IF user = NoUser
    THEN [next |-> FALSE,
          reply |-> AuthError(401, "UNAUTHORIZED", <<"Authentication required">>)]
    ELSE IF user.role \notin roles
      THEN [next |-> FALSE,
            reply |-> AuthError(403, "INSUFFICIENT_PERMISSIONS",
                                <<"Insufficient permissions for this action">>)]
      ELSE [next |-> TRUE, reply |-> NoReply]

\* The reply of POST /auth/refresh: a token signed with the claims of the
\* row the handler's findUnique returns.
RefreshReply(token) ==
  LET seen == AuthenticateToken(token)
  IN IF seen.reply # NoReply THEN seen.reply
     ELSE IF ~UserExists(seen.user.id)
       THEN AuthError(404, "USER_NOT_FOUND", <<"User not found">>)
       ELSE LET user == users[seen.user.id]
            IN [status |-> 200,
                body |-> [success |-> TRUE,
                          data |-> [token |-> Token("valid", seen.user.id, user.role),
                                    user |-> [id |-> seen.user.id, email |-> user.email,
                                              name |-> user.name, role |-> user.role,
                                              provider |-> user.provider]]]]

\* A request arrives in slot r and runs to its first await.
Arrive(r, in) ==
  /\ req[r].pc = "idle"
  /\ LET seen == [IdleSlot EXCEPT
                    !.in = in,
                    !.goneAtArrival = <<in.path, in.id>> \in deleted,
                    !.depsAtArrival = IsItem(in.path) /\ Stored(in.path, in.id)
                                        /\ Referenced(in.path, in.id)]
         answer == IF in.edge # "pass" THEN EdgeReply(in)
                   ELSE IF ~Routed(in) THEN FallThroughReply(in)
                   ELSE TokenReply(in.token)
     IN req' = [req EXCEPT ![r] =
                  IF answer = NoReply
                    THEN [seen EXCEPT !.pc = "auth"]
                    ELSE [seen EXCEPT !.pc = "done", !.reply = answer]]
  /\ UNCHANGED <<db, deleted, login, fault, loggedOut, calc, window>>

\* The reply of POST /auth/logout: nothing is stored or revoked.
LogoutReply ==
  [status |-> 200, body |-> [success |-> TRUE, message |-> <<"Logged out successfully">>]]

\* The route handler's code up to its first await.
Enter(slot) ==
  LET in == slot.in
  IN IF IsLogout(in)
       THEN [slot EXCEPT !.handler = TRUE, !.pc = "done", !.reply = LogoutReply]
       ELSE [slot EXCEPT
               !.handler = TRUE,
               !.pc = IF in.method = "POST" THEN "write"
                      ELSE IF IsCollection(in.path) THEN "list"
                      ELSE "find"]

\* authenticateToken after prisma.user.findUnique, then validateRequest,
\* then the route handler up to its first await.
Authenticate(r) ==
  /\ req[r].pc = "auth"
  /\ LET in == req[r].in
     IN IF ~UserExists(in.token.id)
          THEN Finish(r, AuthError(401, "USER_NOT_FOUND", <<"User no longer exists">>))
          ELSE LET seen == [req[r] EXCEPT !.user = [id |-> in.token.id,
                                                     role |-> in.token.role]]
               IN IF ValidationErrors(in) # <<>>
                    THEN req' = [req EXCEPT ![r] =
                                   [seen EXCEPT !.pc = "done",
                                                !.reply = ValidationReply(in)]]
                    ELSE req' = [req EXCEPT ![r] = Enter(seen)]
  /\ loggedOut' = IF UserExists(req[r].in.token.id) /\ IsLogout(req[r].in)
                    THEN loggedOut \cup {req[r].in.token.id}
                    ELSE loggedOut
  /\ UNCHANGED <<db, deleted, login, fault, calc, window>>

What(path) == IF IsClientPath(path) THEN "Client" ELSE "Venue"
NotFoundReply(in) ==
  RouteError(404, "NOT_FOUND", <<What(in.path), " not found">>, in.path)

\* The data of GET /:id: the row and the ids of the rows that reference it.
ItemData(path, id) ==
  IF IsClientPath(path)
    THEN [id |-> id, row |-> clients[id],
          proposals |-> {p \in DOMAIN proposals : proposals[p].clientId = id},
          bookings |-> {b \in DOMAIN bookings : bookings[b].clientId = id}]
    ELSE [id |-> id, row |-> venues[id],
          proposalVenues |-> CascadeProposalVenuesOfVenue(id),
          bookings |-> {b \in DOMAIN bookings : bookings[b].venueId = id}]

\* prisma.<table>.findUnique of GET, PUT and DELETE /:id, and what the
\* handler does with the row up to its next await.
Find(r) ==
  /\ req[r].pc = "find"
  /\ LET in == req[r].in
     IN IF ~Stored(in.path, in.id)
          THEN Finish(r, NotFoundReply(in))
          ELSE LET seen == [req[r] EXCEPT !.found = Table(in.path)[in.id].createdBy]
               IN req' = [req EXCEPT ![r] =
                    CASE in.method = "GET" ->
                           [seen EXCEPT !.pc = "done",
                                        !.reply = RouteData(200, ItemData(in.path, in.id))]
                      [] in.method = "PUT" -> [seen EXCEPT !.pc = "write"]
                      [] in.method = "DELETE" -> [seen EXCEPT !.pc = "count"]]
  /\ UNCHANGED <<db, deleted, login, fault, loggedOut, calc, window>>

\* The handler after canDeleteClient or canDeleteVenue has resolved.
AfterCanDelete(slot) ==
  LET in == slot.in
      can == IF IsClientPath(in.path)
               THEN CanDeleteClient(slot.proposalCount, slot.bookingCount)
               ELSE CanDeleteVenue(slot.proposalCount, slot.bookingCount)
  IN IF ~can.canDelete
       THEN [slot EXCEPT
               !.pc = "done",
               !.reply = RouteError(409, "CONFLICT",
                           <<IF IsClientPath(in.path) THEN "Cannot delete client: "
                                                      ELSE "Cannot delete venue: ">>
                             \o can.reason,
                           in.path)]
       ELSE [slot EXCEPT !.pc = "write"]

\* One of the two counts of the Promise.all of canDelete*; the handler goes
\* on when both have been read.
Count(r, which) ==
  /\ req[r].pc = "count"
  /\ which \notin req[r].got
  /\ LET in == req[r].in
         read == IF which = "first"
                   THEN [req[r] EXCEPT
                           !.got = @ \cup {which},
                           !.proposalCount =
                              IF IsClientPath(in.path) THEN ProposalCountOfClient(in.id)
                              ELSE ProposalVenueCountOfVenue(in.id)]
                   ELSE [req[r] EXCEPT
                           !.got = @ \cup {which},
                           !.bookingCount =
                              IF IsClientPath(in.path) THEN BookingCountOfClient(in.id)
                              ELSE BookingCountOfVenue(in.id)]
     IN req' = [req EXCEPT ![r] =
                  IF read.got = {"first", "second"} THEN AfterCanDelete(read) ELSE read]
  /\ UNCHANGED <<db, deleted, login, fault, loggedOut, calc, window>>

\* The catch block of the POST, PUT and DELETE handlers, for the error
\* caught.
CatchReply(err, path) ==
  [status |-> 500,
   body |-> [success |-> FALSE,
             error |-> [code |-> "INTERNAL_ERROR", message |-> DbUtilsMessage(err)],
             timestamp |-> "now",
             path |-> path]]

\* The catch block, for the error prisma throws with this code.
CaughtReply(code, path) == CatchReply(PrismaError(code), path)

\* The catch block of the GET handlers.
FetchFailedReply(in) ==
  RouteError(500, "INTERNAL_ERROR",
             <<"Failed to fetch ",
               CASE in.path = "clients" -> "clients"
                 [] in.path = "clients/:id" -> "client"
                 [] in.path = "venues" -> "venues"
                 [] OTHER -> "venue">>,
             in.path)

\* A database call throws err. In the handler (findUnique, count,
\* findMany, create, update, delete) the handler's catch block answers; in
\* authenticateToken (user.findUnique) its catch block answers, as it does
\* for a token jwt.verify refuses.
Fail(r, err) ==
  /\ req[r].pc \in {"auth", "find", "count", "list", "write"}
  /\ LET in == req[r].in
         reply == IF req[r].pc = "auth"
                    THEN AuthError(401, "INVALID_TOKEN", <<"Invalid or expired token">>)
                  ELSE IF in.method = "GET" THEN FetchFailedReply(in)
                  ELSE CatchReply(err, in.path)
     IN /\ req' = [req EXCEPT ![r].pc = "done", ![r].thrown = err.code,
                                ![r].reply = reply]
        /\ fault' = [raised |-> TRUE, err |-> err, reply |-> reply]
  /\ UNCHANGED <<db, deleted, login, loggedOut, calc, window>>

\* prisma.<table>.create of POST, and the 201 reply.
Create(r) ==
  /\ req[r].pc = "write" /\ req[r].in.method = "POST"
  /\ LET in == req[r].in
         id == IF IsClientPath(in.path) THEN nextId.client ELSE nextId.venue
         row == IF IsClientPath(in.path)
                  THEN ClientCreateData(in.body, req[r].user.id)
                  ELSE VenueCreateData(in.body, req[r].user.id)
     IN /\ IF IsClientPath(in.path)
             THEN /\ clients' = With(clients, id, row)
                  /\ nextId' = [nextId EXCEPT !.client = @ + 1]
                  /\ UNCHANGED venues
             ELSE /\ venues' = With(venues, id, row)
                  /\ nextId' = [nextId EXCEPT !.venue = @ + 1]
                  /\ UNCHANGED clients
        /\ Finish(r, RouteData(201, [id |-> id, row |-> row]))
  /\ UNCHANGED <<users, proposals, proposalVenues, bookings, deleted, login, fault, loggedOut, calc, window>>

\* prisma.<table>.update of PUT, and the reply: 200, or the catch block's.
Update(r) ==
  /\ req[r].pc = "write" /\ req[r].in.method = "PUT"
  /\ LET in == req[r].in
     IN IF ~Stored(in.path, in.id)
          THEN /\ req' = [req EXCEPT ![r].pc = "done", ![r].thrown = "P2025",
                                     ![r].reply = CaughtReply("P2025", in.path)]
               /\ UNCHANGED <<clients, venues>>
          ELSE LET row == IF IsClientPath(in.path)
                            THEN Updated(clients[in.id], ClientUpdateData(in.body))
                            ELSE Updated(venues[in.id], VenueUpdateData(in.body))
               IN /\ IF IsClientPath(in.path)
                       THEN clients' = With(clients, in.id, row) /\ UNCHANGED venues
                       ELSE venues' = With(venues, in.id, row) /\ UNCHANGED clients
                  /\ Finish(r, RouteData(200, [id |-> in.id, row |-> row]))
  /\ UNCHANGED <<users, proposals, proposalVenues, bookings, nextId, deleted, login, fault, loggedOut, calc, window>>

\* prisma.<table>.delete of DELETE, with the database's referential
\* actions, and the reply: 200, or the catch block's.
Delete(r) ==
  /\ req[r].pc = "write" /\ req[r].in.method = "DELETE"
  /\ LET in == req[r].in
         outcome == IF IsClientPath(in.path) THEN ClientDeleteOutcome(in.id)
                    ELSE VenueDeleteOutcome(in.id)
         seen == [req[r] EXCEPT !.pc = "done",
                                !.depsAtWrite = Referenced(in.path, in.id)]
     IN IF outcome # "ok"
          THEN /\ req' = [req EXCEPT ![r] =
                            [seen EXCEPT !.thrown = outcome,
                                         !.reply = CaughtReply(outcome, in.path)]]
               /\ UNCHANGED <<clients, venues, proposals, proposalVenues, deleted>>
          ELSE /\ IF IsClientPath(in.path)
                    THEN /\ clients' = ClientsAfterDelete(in.id)
                         /\ proposals' = ProposalsAfterClientDelete(in.id)
                         /\ proposalVenues' = ProposalVenuesAfterClientDelete(in.id)
                         /\ UNCHANGED venues
                    ELSE /\ venues' = VenuesAfterDelete(in.id)
                         /\ proposalVenues' = ProposalVenuesAfterVenueDelete(in.id)
                         /\ UNCHANGED <<clients, proposals>>
               /\ deleted' = deleted \cup {<<in.path, in.id>>}
               /\ req' = [req EXCEPT ![r] =
                            [seen EXCEPT !.reply =
                               RouteMessage(200, <<What(in.path), " deleted successfully">>)]]
  /\ UNCHANGED <<users, bookings, nextId, login, fault, loggedOut, calc, window>>

\* The reply of GET /api/clients and GET /api/venues once both results of
\* its Promise.all are in.
AfterList(slot) ==
  LET p == ApplyPagination(QueryOption(slot.in.query.page), QueryOption(slot.in.query.limit))
  IN [slot EXCEPT
        !.pc = "done",
        !.reply = RouteData(200, CreatePaginatedResult(slot.rows, slot.total,
                                                       p.page, p.limit))]

\* One of the two reads of the list handlers: findMany (skip, take; the
\* route passes no usable orderBy, so any rows of the right number may come
\* back) and count.
List(r, which, rows) ==
  /\ req[r].pc = "list"
  /\ which \notin req[r].got
  /\ LET in == req[r].in
         p == ApplyPagination(QueryOption(in.query.page), QueryOption(in.query.limit))
         n == Cardinality(DOMAIN Table(in.path))
         read == IF which = "first"
                   THEN [req[r] EXCEPT !.got = @ \cup {which}, !.rows = rows]
                   ELSE [req[r] EXCEPT !.got = @ \cup {which}, !.total = n]
     IN /\ which = "first" =>
             /\ rows \subseteq DOMAIN Table(in.path)
             /\ Cardinality(rows) = Min(p.take, Max(0, n - p.skip))
        /\ which = "second" => rows = {}
        /\ req' = [req EXCEPT ![r] =
                     IF read.got = {"first", "second"} THEN AfterList(read) ELSE read]
  /\ UNCHANGED <<db, deleted, login, fault, loggedOut, calc, window>>

\* The caller has its reply; the slot takes the next request.
Recycle(r) ==
  /\ req[r].pc = "done"
  /\ req' = [req EXCEPT ![r] = IdleSlot]
  /\ UNCHANGED <<db, deleted, login, fault, loggedOut, calc, window>>

\* ------------------------------------------- rows written beside the API
\* prisma.proposal.create, prisma.proposalVenue.create and
\* prisma.booking.create, as the seed and the tests call them; the foreign
\* keys want the rows they name to exist.
Inserted == (nextId.proposal - 1) + (nextId.proposalVenue - 1) + (nextId.booking - 1)

InsertProposal(c) ==
  /\ Inserted < MaxInserts
  /\ c \in DOMAIN clients
  /\ proposals' = With(proposals, nextId.proposal,
                       [clientId |-> c, totalValue |-> 0, expectedCommission |-> 0])
  /\ nextId' = [nextId EXCEPT !.proposal = @ + 1]
  /\ UNCHANGED <<users, clients, venues, proposalVenues, bookings, req, deleted, login, fault, loggedOut, calc, window>>

InsertProposalVenue(p, v) ==
  /\ Inserted < MaxInserts
  /\ p \in DOMAIN proposals /\ v \in DOMAIN venues
  /\ proposalVenues' = With(proposalVenues, nextId.proposalVenue,
                            [proposalId |-> p, venueId |-> v, chargeLines |-> <<>>])
  /\ nextId' = [nextId EXCEPT !.proposalVenue = @ + 1]
  /\ UNCHANGED <<users, clients, venues, proposals, bookings, req, deleted, login, fault, loggedOut, calc, window>>

InsertBooking(p, c, v) ==
  /\ Inserted < MaxInserts
  /\ p \in DOMAIN proposals /\ c \in DOMAIN clients /\ v \in DOMAIN venues
  /\ bookings' = With(bookings, nextId.booking,
                      [proposalId |-> p, clientId |-> c, venueId |-> v])
  /\ nextId' = [nextId EXCEPT !.booking = @ + 1]
  /\ UNCHANGED <<users, clients, venues, proposals, proposalVenues, req, deleted, login, fault, loggedOut, calc, window>>

\* ------------------------------------------------ calls of lib/db-utils
\* canDeleteClient(clientId) and canDeleteVenue(venueId), called on their
\* own as the tests call them: the two counts of the id, stored or not,
\* and what the function returns for them.
CallCanDeleteClient(clientId) ==
  /\ calc' = [fn |-> "canDeleteClient",
              args |-> [id |-> clientId, stored |-> clientId \in DOMAIN clients,
                        first |-> ProposalCountOfClient(clientId),
                        second |-> BookingCountOfClient(clientId)],
              out |-> CanDeleteClient(ProposalCountOfClient(clientId),
                                      BookingCountOfClient(clientId))]
  /\ UNCHANGED <<db, req, deleted, login, fault, loggedOut, window>>

CallCanDeleteVenue(venueId) ==
  /\ calc' = [fn |-> "canDeleteVenue",
              args |-> [id |-> venueId, stored |-> venueId \in DOMAIN venues,
                        first |-> ProposalVenueCountOfVenue(venueId),
                        second |-> BookingCountOfVenue(venueId)],
              out |-> CanDeleteVenue(ProposalVenueCountOfVenue(venueId),
                                     BookingCountOfVenue(venueId))]
  /\ UNCHANGED <<db, req, deleted, login, fault, loggedOut, window>>

\* applyPagination and createPaginatedResult, called on their own.
CallApplyPagination(optionsPage, optionsLimit) ==
  /\ calc' = [fn |-> "applyPagination",
              args |-> [page |-> optionsPage, limit |-> optionsLimit],
              out |-> ApplyPagination(optionsPage, optionsLimit)]
  /\ UNCHANGED <<db, req, deleted, login, fault, loggedOut, window>>

CallCreatePaginatedResult(data, total, page, limit) ==
  /\ calc' = [fn |-> "createPaginatedResult",
              args |-> [data |-> data, total |-> total, page |-> page, limit |-> limit],
              out |-> CreatePaginatedResult(data, total, page, limit)]
  /\ UNCHANGED <<db, req, deleted, login, fault, loggedOut, window>>

\* hasPermission, canAccessOwnResource and the handler of
\* requireResourceAccess, called on their own.
CallHasPermission(user, permission) ==
  /\ calc' = [fn |-> "hasPermission",
              args |-> [user |-> user, permission |-> permission],
              out |-> HasPermission(user, permission)]
  /\ UNCHANGED <<db, req, deleted, login, fault, loggedOut, window>>

CallCanAccessOwnResource(user, resourceCreatorId) ==
  /\ calc' = [fn |-> "canAccessOwnResource",
              args |-> [user |-> user, lookup |-> Creator(resourceCreatorId)],
              out |-> CanAccessOwnResource(user, resourceCreatorId)]
  /\ UNCHANGED <<db, req, deleted, login, fault, loggedOut, window>>

CallRequireResourceAccess(user, lookup) ==
  /\ calc' = [fn |-> "requireResourceAccess",
              args |-> [user |-> user, lookup |-> lookup],
              out |-> RequireResourceAccess(user, lookup)]
  /\ UNCHANGED <<db, req, deleted, login, fault, loggedOut, window>>

\* A request with this token reaches authenticateToken and then
\* requireRole(roles); the call before it is kept beside its outcome.
NoEarlier == [seen |-> FALSE, args |-> <<>>, out |-> <<>>, stored |-> ""]
Earlier(call) ==
  IF call.fn = "requireRole"
    THEN [seen |-> TRUE, args |-> call.args, out |-> call.out, stored |-> call.stored]
    ELSE NoEarlier
CallRequireRole(token, roles) ==
  /\ LET seen == AuthenticateToken(token)
     IN calc' = [fn |-> "requireRole",
                 args |-> [token |-> token, roles |-> roles],
                 out |-> IF seen.reply # NoReply THEN [next |-> FALSE, reply |-> seen.reply]
                         ELSE RequireRole(seen.user, roles),
                 user |-> seen.user,
                 stored |-> IF UserExists(token.id) THEN users[token.id].role ELSE "",
                 before |-> Earlier(calc)]
  /\ UNCHANGED <<db, req, deleted, login, fault, loggedOut, window>>

\* POST /auth/refresh
CallRefresh(token) ==
  /\ calc' = [fn |-> "refresh", args |-> [token |-> token], out |-> RefreshReply(token)]
  /\ UNCHANGED <<db, req, deleted, login, fault, loggedOut, window>>

\* The role of a user is changed in the database, by no route of the server.
SetRole(u, role) ==
  /\ u \in DOMAIN users
  /\ users[u].role # role
  /\ users' = [users EXCEPT ![u].role = role]
  /\ UNCHANGED <<clients, venues, proposals, proposalVenues, bookings, nextId, req,
                 deleted, login, fault, loggedOut, calc, window>>

\* --------------------------------------------------------- OAuth logins
\* users.email is UNIQUE: does a row hold this email?
EmailNeverTaken(email) == FALSE
EmailTaken(email) == \E u \in DOMAIN users : users[u].email = email

\* prisma.user.findUnique({ where: { email } }): the row's id, 0 for null
UserIdOfEmail(email) ==
  IF EmailTaken(email) THEN CHOOSE u \in DOMAIN users : users[u].email = email ELSE 0

\* A login: where findOrCreateUser stands (pc), the profile the provider
\* sent, the id findUnique returned, the reply, and what the run has seen:
\*   hadRow   a row held the e-mail when the login's write ran
\*   wrote    the id of the row the login's write created or updated
IdleLogin ==
  [pc |-> "idle", email |-> Undef, name |-> "", provider |-> "", providerId |-> "",
   found |-> 0, reply |-> NoReply, hadRow |-> FALSE, wrote |-> 0]

CallbackPath(provider) == <<"/auth/", provider, "/callback">>

\* The callback route's reply: a redirect carrying generateToken's claims.
TokenRedirect(id, row) ==
  [status |-> 302,
   body |-> [token |-> Token("valid", id, row.role), email |-> row.email]]

\* The provider calls back: the strategy's verify callback runs
\* findOrCreateUser up to its first await.
LoginArrive(l, email, name, provider) ==
  /\ login[l].pc = "idle"
  /\ nextId.user + Cardinality({k \in DOMAIN login : login[k].pc \in {"find", "write"}})
       <= MaxUsers
  /\ LET seen == [IdleLogin EXCEPT !.email = email, !.name = name, !.provider = provider,
                                   !.providerId = <<provider, "-id">>]
     IN login' = [login EXCEPT ![l] =
          IF email \in {Undef, ""}
            THEN [seen EXCEPT
                    !.pc = "done",
                    !.reply = ErrorHandler(
                       Thrown("Error", "", <<>>, <<"Email is required from OAuth provider">>),
                       CallbackPath(provider))]
            ELSE [seen EXCEPT !.pc = "find"]]
  /\ UNCHANGED <<db, req, deleted, fault, loggedOut, calc, window>>

\* prisma.user.findUnique({ where: { email } })
LoginFind(l) ==
  /\ login[l].pc = "find"
  /\ login' = [login EXCEPT ![l].pc = "write", ![l].found = UserIdOfEmail(login[l].email)]
  /\ UNCHANGED <<db, req, deleted, fault, loggedOut, calc, window>>

\* data of findOrCreateUser's prisma.user.update
LoginUpdateDataWithRole(me) ==
  [name |-> me.name, provider |-> me.provider, providerId |-> me.providerId,
   role |-> "consultant"]
LoginUpdateData(me) ==
  [name |-> me.name, provider |-> me.provider, providerId |-> me.providerId]

\* prisma.user.update or prisma.user.create, then the reply: the redirect
\* with the token, or the error the strategy hands to the error handler.
LoginWrite(l) ==
  /\ login[l].pc = "write"
  /\ LET me == login[l]
         seen == [me EXCEPT !.pc = "done", !.hadRow = EmailTaken(me.email)]
     IN IF me.found # 0
          THEN LET row == Updated(users[me.found], LoginUpdateData(me))
               IN /\ users' = With(users, me.found, row)
                  /\ UNCHANGED nextId
                  /\ login' = [login EXCEPT ![l] =
                       [seen EXCEPT !.wrote = me.found,
                                    !.reply = TokenRedirect(me.found, row)]]
          ELSE IF EmailTaken(me.email)
            THEN /\ UNCHANGED <<users, nextId>>
                 /\ login' = [login EXCEPT ![l] =
                      [seen EXCEPT !.reply = ErrorHandler(
                         Thrown("PrismaClientKnownRequestError", "P2002", <<"email">>,
                                <<"Unique constraint failed">>),
                         CallbackPath(me.provider))]]
            ELSE LET row == [email |-> me.email, name |-> me.name, role |-> "consultant",
                             provider |-> me.provider, providerId |-> me.providerId]
                 IN /\ users' = With(users, nextId.user, row)
                    /\ nextId' = [nextId EXCEPT !.user = @ + 1]
                    /\ login' = [login EXCEPT ![l] =
                         [seen EXCEPT !.wrote = nextId.user,
                                      !.reply = TokenRedirect(nextId.user, row)]]
  /\ UNCHANGED <<clients, venues, proposals, proposalVenues, bookings, req, deleted, fault, loggedOut, calc, window>>

LoginRecycle(l) ==
  /\ login[l].pc = "done"
  /\ login' = [login EXCEPT ![l] = IdleLogin]
  /\ UNCHANGED <<db, req, deleted, fault, loggedOut, calc, window>>

\* ---------------------------------------------------------- rate limiting
\* rateLimits.auth and rateLimits.general: max of createRateLimit.
RateLimitMaxGeneralOnly(limiter) == 100
RateLimitMax(limiter) == IF limiter = "auth" THEN 10 ELSE 100

\* The handler of createRateLimit: the reply to a request over the limit.
RateLimitReply(limiter, path) ==
  RouteError(429, "RATE_LIMIT_EXCEEDED",
             IF limiter = "auth"
               THEN <<"Too many authentication attempts, please try again later">>
               ELSE <<"Too many requests, please try again later">>,
             path)

\* A request of ip reaches the limiter of its path: the limiter counts it,
\* passes it on while the count is within max, and answers 429 beyond.
RateLimit(limiter, ip) ==
  /\ window[limiter][ip].hits < RateLimitMax(limiter) + MaxOver
  /\ ip # 1 => window[limiter][ip].hits < MaxOtherHits
  /\ LET hits == window[limiter][ip].hits + 1
     IN window' = [window EXCEPT
                     ![limiter][ip] =
                        IF hits <= RateLimitMax(limiter)
                          THEN [@ EXCEPT !.hits = hits, !.passed = @ + 1]
                          ELSE [@ EXCEPT !.hits = hits, !.refused = @ + 1]]
  /\ UNCHANGED <<db, req, deleted, login, fault, loggedOut, calc>>

\* windowMs have passed since the first request the limiter counted for ip.
WindowEnds(limiter, ip) ==
  /\ window[limiter][ip].hits > 0
  /\ window' = [window EXCEPT ![limiter][ip] = [hits |-> 0, passed |-> 0, refused |-> 0]]
  /\ UNCHANGED <<db, req, deleted, login, fault, loggedOut, calc>>

\* ------------------------------------------------ errors at the translator
\* An error reaches errorHandler through next(err): the reply it writes.
Raise(err, path) ==
  /\ fault' = [raised |-> TRUE, err |-> err, reply |-> ErrorHandler(err, path)]
  /\ UNCHANGED <<db, req, deleted, login, loggedOut, calc, window>>

\* ------------------------------------------------------------ the start
\* The users of database/seed.ts: an admin and a consultant.
SeedUsers ==
  [i \in {1, 2} |->
     IF i = 1
       THEN [email |-> "admin@venuefinder.com", name |-> "Admin User", role |-> "admin",
             provider |-> "google", providerId |-> "admin-google-id"]
       ELSE [email |-> "consultant@venuefinder.com", name |-> "Consultant User",
             role |-> "consultant", provider |-> "microsoft",
             providerId |-> "consultant-microsoft-id"]]

NoHits == [limiter \in {"auth", "api"} |-> [ip \in 1..MaxIps |-> [hits |-> 0, passed |-> 0, refused |-> 0]]]
NoCall == [fn |-> "", args |-> <<>>, out |-> <<>>]
NoFault == [raised |-> FALSE, err |-> Thrown("", "", <<>>, <<>>), reply |-> NoReply]

Init ==
  /\ users = SeedUsers
  /\ clients = Empty
  /\ venues = Empty
  /\ proposals = Empty
  /\ proposalVenues = Empty
  /\ bookings = Empty
  /\ nextId = [user |-> Cardinality(DOMAIN SeedUsers) + 1, client |-> 1, venue |-> 1, proposal |-> 1,
               proposalVenue |-> 1, booking |-> 1]
  /\ req = [r \in Slots |-> IdleSlot]
  /\ deleted = {}
  /\ login = [l \in 1..MaxLogins |-> IdleLogin]
  /\ fault = NoFault
  /\ loggedOut = {}
  /\ calc = NoCall
  /\ window = NoHits

\* ------------------------------------------------------------ the inputs
AdminToken == Token("valid", 1, "admin")
ConsultantToken == Token("valid", 2, "consultant")
\* A token whose user row is gone.
GhostToken == Token("valid", MaxUsers + 1, "consultant")

ClientBody(name, company, contactName, email, phone, notes, createdBy) ==
  [name |-> name, company |-> company, contactName |-> contactName, email |-> email,
   phone |-> phone, notes |-> notes, createdBy |-> createdBy]
VenueBody(name, location, contactName, email, phone, standardCommission, notes, createdBy) ==
  [name |-> name, location |-> location, contactName |-> contactName, email |-> email,
   phone |-> phone, standardCommission |-> standardCommission, notes |-> notes,
   createdBy |-> createdBy]
NoQuery == [page |-> Undef, limit |-> Undef]

Request(method, path, id, token, body, query, edge) ==
  [method |-> method, path |-> path, id |-> id, token |-> token, body |-> body,
   query |-> query, edge |-> edge]

\* The ids a request can name for a path: 0 is no valid id.
IdsOf(path) ==
  IF path = "clients/:id" THEN 1..MaxClients
  ELSE IF path = "venues/:id" THEN 1..MaxVenues
  ELSE {0}

\* POST is let in while the serial column has ids left for it.
Room(in) ==
  in.method = "POST" /\ IsCollection(in.path) =>
    LET pending == Cardinality({r \in Slots :
                      /\ req[r].pc \in {"auth", "write"}
                      /\ req[r].in.method = "POST"
                      /\ req[r].in.path = in.path})
    IN IF IsClientPath(in.path) THEN nextId.client + pending <= MaxClients
       ELSE nextId.venue + pending <= MaxVenues

\* A body that names its record "a" and nothing else.
NameOnlyClient == ClientBody("a", Undef, Undef, Undef, Undef, Undef, Undef)
NameOnlyVenue == VenueBody("a", Undef, Undef, Undef, Undef, Undef, Undef, Undef)
NameOnly(path) == IF IsClientPath(path) THEN NameOnlyClient ELSE NameOnlyVenue

\* The requests of the concurrent specification: a consultant's valid
\* POST, PUT and DELETE to the client and venue routes.
RaceRequests ==
  {Request(m, p, i, ConsultantToken, IF m = "DELETE" THEN Empty ELSE NameOnly(p),
           NoQuery, "pass") :
     m \in {"PUT", "DELETE"}, p \in {"clients/:id", "venues/:id"},
     i \in 1..Max(MaxClients, MaxVenues)}
  \cup {Request("POST", p, 0, ConsultantToken, NameOnly(p), NoQuery, "pass") :
          p \in {"clients", "venues"}}

\* The steps of the handlers that read or write one record.
Mutate(r) ==
  \/ Authenticate(r)
  \/ Find(r)
  \/ \E which \in {"first", "second"} : Count(r, which)
  \/ Create(r)
  \/ Update(r)
  \/ Delete(r)
  \/ Recycle(r)

Handle(r) ==
  \/ Mutate(r)
  \/ \E which \in {"first", "second"} :
       \E rows \in SUBSET (DOMAIN clients \cup DOMAIN venues) : List(r, which, rows)

Insert ==
  \/ \E c \in DOMAIN clients : InsertProposal(c)
  \/ \E p \in DOMAIN proposals : \E v \in DOMAIN venues : InsertProposalVenue(p, v)
  \/ \E p \in DOMAIN proposals : \E c \in DOMAIN clients : \E v \in DOMAIN venues :
       InsertBooking(p, c, v)

\* Requests in flight together, with rows inserted beside them.
Next ==
  \/ \E r \in Slots : \E in \in RaceRequests :
       in.id \in IdsOf(in.path) /\ Room(in) /\ Arrive(r, in)
  \/ \E r \in Slots : Mutate(r)
  \/ Insert

Spec == Init /\ [][Next]_vars

\* ------------------------------------------- one request at a time
\* A PUT body that changes one optional field.
ChangeClient == ClientBody(Undef, "b", Undef, Undef, Undef, Undef, Undef)
ChangeVenue == VenueBody(Undef, "b", Undef, Undef, Undef, Undef, Undef, Undef)
Change(path) == IF IsClientPath(path) THEN ChangeClient ELSE ChangeVenue

\* The admin's valid POST, GET, PUT and DELETE to the client and venue
\* routes.
SeqRequests ==
  {Request(m, p, i, AdminToken, IF m = "PUT" THEN Change(p) ELSE Empty, NoQuery, "pass") :
     m \in {"GET", "PUT", "DELETE"}, p \in {"clients/:id", "venues/:id"},
     i \in 1..Max(MaxClients, MaxVenues)}
  \cup {Request("POST", p, 0, AdminToken, NameOnly(p), NoQuery, "pass") :
          p \in {"clients", "venues"}}

\* One request at a time, with rows inserted beside it.
SeqNext ==
  \/ \E in \in SeqRequests : in.id \in IdsOf(in.path) /\ Room(in) /\ Arrive(1, in)
  \/ Mutate(1)
  \/ Insert

SpecSeq == Init /\ [][SeqNext]_vars

\* ------------------------------------- every kind of request, one by one
\* The tokens a request can carry.
Tokens ==
  {NoToken, Token("nosecond", 0, ""), Token("bad", 0, ""),
   AdminToken, ConsultantToken, GhostToken}

\* A POST body the schema refuses: no name.
NamelessClient == ClientBody(Undef, Undef, Undef, Undef, Undef, Undef, Undef)
NamelessVenue == VenueBody(Undef, Undef, Undef, Undef, Undef, Undef, Undef, Undef)

\* Requests to the item routes with every token, and with id 0, an id the
\* schema refuses.
ItemRequests ==
  {Request(m, p, i, t, IF m = "PUT" THEN Change(p) ELSE Empty, NoQuery, "pass") :
     m \in {"GET", "PUT", "DELETE"}, p \in {"clients/:id", "venues/:id"},
     i \in 1..Max(MaxClients, MaxVenues), t \in Tokens}
  \cup {Request(m, p, 0, AdminToken, IF m = "PUT" THEN Change(p) ELSE Empty,
                NoQuery, "pass") :
          m \in {"GET", "PUT", "DELETE"}, p \in {"clients/:id", "venues/:id"}}

\* Requests to the collection routes with every token, and with a query
\* or a body the schema refuses.
CollectionRequests ==
  {Request("GET", p, 0, t, Empty, NoQuery, "pass") :
     p \in {"clients", "venues"}, t \in Tokens}
  \cup {Request("GET", p, 0, AdminToken, Empty, q, "pass") :
          p \in {"clients", "venues"},
          q \in {[page |-> "0", limit |-> Undef], [page |-> "2", limit |-> "1"],
                 [page |-> "0", limit |-> "0"]}}
  \cup {Request("POST", p, 0, t, NameOnly(p), NoQuery, "pass") :
          p \in {"clients", "venues"}, t \in Tokens}
  \cup {Request("POST", "clients", 0, AdminToken,
                ClientBody(Undef, Undef, Undef, "a", Undef, Undef, Undef), NoQuery, "pass")}
  \cup {Request("POST", "clients", 0, AdminToken, NamelessClient, NoQuery, "pass"),
        Request("POST", "venues", 0, AdminToken, NamelessVenue, NoQuery, "pass")}

\* Requests no route takes: /api itself, an unknown path under /api/, and
\* a method the client router has no route for.
UnroutedRequests ==
  {Request(mp[1], mp[2], 0, t, Empty, NoQuery, "pass") :
     mp \in {<<"GET", "api">>, <<"POST", "api">>, <<"GET", "other">>,
             <<"DELETE", "clients">>},
     t \in {NoToken, AdminToken}}

\* Requests answered before any router: refused origin, rate limit, body
\* the JSON parser refuses.
EdgeRequests ==
  {Request("POST", "clients", 0, t, NameOnlyClient, NoQuery, e) :
     t \in {NoToken, AdminToken}, e \in {"cors", "limited", "badjson", "toolarge", "toolargeraw"}}

AnyRequests == ItemRequests \cup CollectionRequests \cup UnroutedRequests \cup EdgeRequests

\* One request of any kind at a time.
AnyNext ==
  \/ \E in \in AnyRequests : in.id \in IdsOf(in.path) \cup {0} /\ Room(in) /\ Arrive(1, in)
  \/ Handle(1)

SpecAny == Init /\ [][AnyNext]_vars

\* ------------------------------------ the optional fields of a client
\* A body whose company, whose other text fields and whose e-mail are given.
FieldsBody(name, company, text, email) ==
  ClientBody(name, company, text, email, text, text, Undef)

\* POST and PUT bodies: absent, null, empty, blank and filled fields.
FieldsBodies(name) ==
  {FieldsBody(name, c, t, e) :
     c \in {Undef, "", " ", "a"}, t \in {Undef, "", "a"}, e \in {Undef, "", "a@b.c"}}
  \cup {FieldsBody(name, Null, Undef, Undef), FieldsBody(name, Long, Undef, Undef),
        FieldsBody(name, Undef, Undef, " ")}

FieldsRequests ==
  {Request("POST", "clients", 0, AdminToken, b, NoQuery, "pass") : b \in FieldsBodies("a")}
  \cup {Request("PUT", "clients/:id", i, AdminToken, b, NoQuery, "pass") :
          i \in 1..MaxClients, b \in FieldsBodies(Undef)}

\* POST /api/clients and PUT /api/clients/:id, one request at a time.
FieldsNext ==
  \/ \E in \in FieldsRequests : Room(in) /\ Arrive(1, in)
  \/ Authenticate(1)
  \/ Find(1)
  \/ Create(1)
  \/ Update(1)
  \/ Recycle(1)

SpecFields == Init /\ [][FieldsNext]_vars

\* ------------------------------------------------------- logins together
NewEmail == "new@venuefinder.com"
LoginEmails == {Undef, NewEmail} \cup {SeedUsers[u].email : u \in DOMAIN SeedUsers}

LoginNext ==
  \/ \E l \in DOMAIN login : \E e \in LoginEmails : \E p \in {"google", "microsoft"} :
       LoginArrive(l, e, "Profile Name", p)
  \/ \E l \in DOMAIN login : LoginFind(l)
  \/ \E l \in DOMAIN login : LoginWrite(l)
  \/ \E l \in DOMAIN login : LoginRecycle(l)

SpecLogin == Init /\ [][LoginNext]_vars

\* ------------------------------------------------- roles that change
\* The tokens ever signed for the seeded users, one whose user is gone and
\* none.
RoleTokens ==
  {NoToken, GhostToken} \cup {Token("valid", u, role) : u \in {1, 2}, role \in UserRole}

\* Requests behind requireRole, refreshes and logins, while roles change
\* in the database.
RoleNext ==
  \/ \E t \in RoleTokens : \E roles \in {{"admin"}, {"consultant", "admin"}} :
       CallRequireRole(t, roles)
  \/ \E t \in RoleTokens : CallRefresh(t)
  \/ \E u \in {1, 2} : \E role \in UserRole : SetRole(u, role)
  \/ \E e \in {NewEmail, SeedUsers[1].email} : LoginArrive(1, e, "Profile Name", "google")
  \/ LoginFind(1)
  \/ LoginWrite(1)
  \/ LoginRecycle(1)

SpecRole == Init /\ [][RoleNext]_vars

\* -------------------------------------------------- the errors translated
ErrorNames ==
  {"Error", "AppError", "PrismaClientKnownRequestError", "PrismaClientValidationError",
   "ValidationError", "CastError", "JsonWebTokenError", "TokenExpiredError",
   "SyntaxError", "PayloadTooLargeError"}
PrismaCodes == {"P2002", "P2025", "P2003", "P2014", "P2024"}
Targets == {<<>>, <<"email">>, <<"provider", "providerId">>}
Messages == {<<"Unexpected token in ", "JSON">>, <<"connect ECONNREFUSED 10.0.0.5:5432">>}

\* The errors that can reach errorHandler: thrown by a library, or made
\* by createError.
Errors ==
  {Thrown(n, c, t, m) : n \in ErrorNames \ {"AppError"}, c \in PrismaCodes,
                        t \in Targets, m \in Messages}
  \cup {NotFound(<<"User not found">>), Unauthorized(<<"Authentication required">>),
        Conflict(<<"Already there">>, NoDetails),
        BadRequest(<<"Bad input">>, "name", NoDetails)}

ErrNext == \E err \in Errors : Raise(err, "/auth/google/callback")

SpecErr == Init /\ [][ErrNext]_vars

\* ------------------------------------------- the database calls that fail
\* The errors a database call throws: a known request error with a code
\* db-utils lists or one it does not, a validation error, any other Error.
FailCodes == {"P2002", "P2024"}
FailErrors ==
  {Thrown("PrismaClientKnownRequestError", c, <<>>, m) : c \in FailCodes, m \in Messages}
  \cup {Thrown(n, "", <<>>, m) : n \in {"PrismaClientValidationError", "Error"},
                                m \in Messages}

\* One request at a time, any database call of which may fail.
FailNext ==
  \/ \E in \in SeqRequests : in.id \in IdsOf(in.path) /\ Room(in) /\ Arrive(1, in)
  \/ Mutate(1)
  \/ \E err \in FailErrors : Fail(1, err)

SpecFail == Init /\ [][FailNext]_vars

\* ----------------------------------------------------- logging out
\* POST /auth/logout with every token, among the requests of the stored
\* users to the item and collection routes.
LogoutRequests ==
  {Request("POST", "auth/logout", 0, t, Empty, NoQuery, "pass") : t \in Tokens}
  \cup {in \in ItemRequests \cup CollectionRequests :
          in.token \in {AdminToken, ConsultantToken} /\ in.query = NoQuery}

LogoutNext ==
  \/ \E in \in LogoutRequests : in.id \in IdsOf(in.path) \cup {0} /\ Room(in) /\ Arrive(1, in)
  \/ Handle(1)

SpecLogout == Init /\ [][LogoutNext]_vars

\* ------------------------------------------------- the deletion guard
\* Clients and venues are created, rows are inserted that name them, and
\* the guard is asked about every id, stored or not.
GuardRequests ==
  {Request("POST", p, 0, AdminToken, NameOnly(p), NoQuery, "pass") : p \in {"clients", "venues"}}

GuardNext ==
  \/ \E in \in GuardRequests : Room(in) /\ Arrive(1, in)
  \/ Authenticate(1)
  \/ Create(1)
  \/ Recycle(1)
  \/ Insert
  \/ \E id \in 1..(MaxClients + 1) : CallCanDeleteClient(id)
  \/ \E id \in 1..(MaxVenues + 1) : CallCanDeleteVenue(id)

SpecGuard == Init /\ [][GuardNext]_vars

\* ------------------------------------------- the functions on their own
\* The values of page and of limit: missing, the numbers from -1 up and
\* those around the cap, and query strings.
Numbers == (-1..MaxNumber) \cup {100, 101}
Options ==
  {Missing} \cup {Number(n) : n \in Numbers} \cup {QueryOption(s) : s \in {"", "0", "2", "100"}}
\* The lists a page holds.
Pages == {{}, {1}}

CalcNext ==
  \/ \E optionsPage \in Options, optionsLimit \in Options :
       CallApplyPagination(optionsPage, optionsLimit)
  \/ \E data \in Pages, total \in 0..MaxTotal, page \in 1..MaxPage, limit \in 1..MaxLimit :
       CallCreatePaginatedResult(data, total, page, limit)

SpecCalc == Init /\ [][CalcNext]_vars

\* ------------------------------------------------ who may do what
\* The users a token can stand for: every id with every role, and with a
\* role the table does not hold.
Roles == UserRole \cup {"guest", ""}
AuthenticatedUsers == {[id |-> i, role |-> role] : i \in 1..MaxUsers, role \in Roles}
Lookups == {Creator(i) : i \in 1..MaxUsers} \cup {NullCreator, LookupThrows}

AccessNext ==
  \/ \E user \in AuthenticatedUsers, permission \in Permission :
       CallHasPermission(user, permission)
  \/ \E user \in AuthenticatedUsers, id \in 1..MaxUsers :
       CallCanAccessOwnResource(user, id)
  \/ \E user \in AuthenticatedUsers, lookup \in Lookups :
       CallRequireResourceAccess(user, lookup)

SpecAccess == Init /\ [][AccessNext]_vars

\* ------------------------------------------------- requests at the limiters
Limiters == {"auth", "api"}
LimitNext ==
  \/ \E limiter \in Limiters, ip \in 1..MaxIps : RateLimit(limiter, ip)
  \/ \E limiter \in Limiters, ip \in 1..MaxIps : WindowEnds(limiter, ip)

SpecLimit == Init /\ [][LimitNext]_vars

\* ------------------------------------------------------- the seed script
\* A charge line of a ProposalVenue: money in hundredths.
ChargeLine(quantity, unitPrice, total) ==
  [quantity |-> quantity, unitPrice |-> unitPrice, total |-> total]

\* main of the seed script, run on a fresh database: two clients, three
\* venues, a proposal and its proposal venue, all created by the consultant
\* (the two users are those of SeedUsers). Commission rates are in
\* hundredths of a percent; commission_override is left NULL.
SeedMain ==
  /\ nextId = [user |-> Cardinality(DOMAIN SeedUsers) + 1, client |-> 1, venue |-> 1,
               proposal |-> 1, proposalVenue |-> 1, booking |-> 1]
  /\ clients' =
       With(With(clients, 1,
                 ClientBody("Acme Corporation", "Acme Corp", "John Smith",
                            "john.smith@acme.com", "+1-555-0123",
                            "Large corporate client, prefers luxury venues", 2)),
            2, ClientBody("Tech Startup Inc", "Tech Startup Inc", "Jane Doe",
                          "jane.doe@techstartup.com", "+1-555-0789",
                          "Growing startup, budget-conscious but values modern facilities",
                          2))
  /\ venues' =
       With(With(With(venues, 1,
                      VenueBody("Grand Hotel Conference Center", "Downtown, City Center",
                                "Sarah Johnson", "events@grandhotel.com", "+1-555-0456",
                                1000, "Premium venue with excellent AV facilities", 2)),
                 2, VenueBody("Modern Business Hub", "Business District", "Mike Wilson",
                              "bookings@modernhub.com", "+1-555-0321", 850,
                              "Contemporary venue with state-of-the-art technology", 2)),
            3, VenueBody("Riverside Event Space", "Waterfront District", "Lisa Chen",
                         "events@riverside.com", "+1-555-0654", 1200,
                         "Scenic venue with outdoor options and waterfront views", 2))
  /\ proposals' = With(proposals, 1,
                       [clientId |-> 1, totalValue |-> 1500000,
                        expectedCommission |-> 150000])
  /\ proposalVenues' =
       With(proposalVenues, 1,
            [proposalId |-> 1, venueId |-> 1,
             chargeLines |-> <<ChargeLine(2, 250000, 500000),
                               ChargeLine(100, 4500, 450000),
                               ChargeLine(1, 120000, 120000)>>])
  /\ nextId' = [nextId EXCEPT !.client = 3, !.venue = 4, !.proposal = 2,
                              !.proposalVenue = 2]
  /\ UNCHANGED <<users, bookings, req, deleted, login, fault, loggedOut, calc, window>>

\* ------------------------------------------- the commission of a venue
\* What a body may carry as standardCommission: nothing, numbers within,
\* at the ends of and outside 0..100, and what is no number.
Commissions ==
  {Undef, "0", "15.5", "15.555", "100", "100.001", "101", "-0.001", "-1", "a"}

CommissionRequests ==
  {Request("POST", "venues", 0, AdminToken,
           VenueBody("a", Undef, Undef, Undef, Undef, c, Undef, Undef), NoQuery, "pass") :
     c \in Commissions}
  \cup {Request("PUT", "venues/:id", i, AdminToken,
                VenueBody(Undef, Undef, Undef, Undef, Undef, c, Undef, Undef), NoQuery,
                "pass") :
          i \in 1..MaxVenues, c \in Commissions}

\* POST /api/venues and PUT /api/venues/:id, one request at a time.
CommissionNext ==
  \/ \E in \in CommissionRequests : Room(in) /\ Arrive(1, in)
  \/ Authenticate(1)
  \/ Find(1)
  \/ Create(1)
  \/ Update(1)
  \/ Recycle(1)

SpecCommission == Init /\ [][CommissionNext]_vars

\* ------------------------------------------------ who created a record
\* POST and PUT by the admin and by the consultant, with and without a
\* createdBy of the sender's choosing in the body.
CreatorRequests ==
  {Request("POST", "clients", 0, t,
           ClientBody("a", Undef, Undef, Undef, Undef, Undef, by), NoQuery, "pass") :
     t \in {AdminToken, ConsultantToken}, by \in {Undef, "1", "2"}}
  \cup {Request("POST", "venues", 0, t,
                VenueBody("a", Undef, Undef, Undef, Undef, Undef, Undef, by), NoQuery,
                "pass") :
          t \in {AdminToken, ConsultantToken}, by \in {Undef, "1", "2"}}
  \cup {Request("PUT", "clients/:id", i, t,
                ClientBody(Undef, "b", Undef, Undef, Undef, Undef, by), NoQuery, "pass") :
          i \in 1..MaxClients, t \in {AdminToken, ConsultantToken},
          by \in {Undef, "1", "2"}}
  \cup {Request("PUT", "venues/:id", i, t,
                VenueBody(Undef, "b", Undef, Undef, Undef, Undef, Undef, by), NoQuery,
                "pass") :
          i \in 1..MaxVenues, t \in {AdminToken, ConsultantToken},
          by \in {Undef, "1", "2"}}

\* POST and PUT to the client and venue routes, one request at a time.
CreatorNext ==
  \/ \E in \in CreatorRequests : Room(in) /\ Arrive(1, in)
  \/ Authenticate(1)
  \/ Find(1)
  \/ Create(1)
  \/ Update(1)
  \/ Recycle(1)

SpecCreator == Init /\ [][CreatorNext]_vars

\* ------------------------------------------------ the seeded database
\* The seed script runs on the fresh database, or requests and inserts
\* make the rows.
SeedNext ==
  \/ SeedMain
  \/ SeqNext

SpecSeed == Init /\ [][SeedNext]_vars

\* ---------------------------------------------------------------- claims
\* A request the pipeline lets through to its route handler: past the edge
\* middleware, to a route, with the valid token of a stored user, and valid.
Admitted(in) ==
  /\ in.edge = "pass"
  /\ Routed(in)
  /\ in.token.kind = "valid" /\ in.token.id \in DOMAIN users
  /\ ValidationErrors(in) = <<>>

Answered(r) == req[r].pc = "done"
IsConflict(reply, prefix) ==
  /\ reply.status = 409
  /\ reply.body.success = FALSE
  /\ reply.body.error.code = "CONFLICT"
  /\ Head(reply.body.error.message) = prefix

\* C1: a DELETE /api/clients/:id that finds its client stored and referenced
\* by a proposal or a booking is answered 409 CONFLICT with a message that
\* begins 'Cannot delete client', and the client is still stored.
C1_ReferencedClientKept ==
  \A r \in Slots :
     (/\ Answered(r)
      /\ req[r].in.method = "DELETE" /\ req[r].in.path = "clients/:id"
      /\ Admitted(req[r].in)
      /\ req[r].depsAtArrival)
     => /\ IsConflict(req[r].reply, "Cannot delete client: ")
        /\ req[r].in.id \in DOMAIN clients

C1_Witness ==
  \E r \in Slots :
     /\ Answered(r)
     /\ req[r].in.method = "DELETE" /\ req[r].in.path = "clients/:id"
     /\ Admitted(req[r].in)
     /\ req[r].depsAtArrival
     /\ req[r].bookingCount > 0
     /\ req[r].reply.status = 409

\* C2: a DELETE /api/venues/:id that finds its venue stored and referenced
\* by a proposal-venue or a booking is answered 409 CONFLICT with a message
\* that begins 'Cannot delete venue', and the venue is still stored.
C2_ReferencedVenueKept ==
  \A r \in Slots :
     (/\ Answered(r)
      /\ req[r].in.method = "DELETE" /\ req[r].in.path = "venues/:id"
      /\ Admitted(req[r].in)
      /\ req[r].depsAtArrival)
     => /\ IsConflict(req[r].reply, "Cannot delete venue: ")
        /\ req[r].in.id \in DOMAIN venues

C2_Witness ==
  \E r \in Slots :
     /\ Answered(r)
     /\ req[r].in.method = "DELETE" /\ req[r].in.path = "venues/:id"
     /\ Admitted(req[r].in)
     /\ req[r].depsAtArrival
     /\ req[r].proposalCount > 0 /\ req[r].bookingCount = 0
     /\ req[r].reply.status = 409

\* C3: in every interleaving, a DELETE whose database delete runs while a
\* row references the target is answered 409 CONFLICT: the database's
\* cascade or restrict rule never decides the outcome.
C3_DeleteBlockedByApplication ==
  \A r \in Slots :
     (Answered(r) /\ req[r].in.method = "DELETE" /\ req[r].depsAtWrite)
     => req[r].reply.status = 409 /\ req[r].reply.body.error.code = "CONFLICT"

HasValidToken(in) == in.token.kind = "valid" /\ in.token.id \in DOMAIN users

\* C4 as the specification words it: every request to a path under /api
\* that carries no valid token is answered 401.
C4_EveryApiPathNeedsToken ==
  \A r \in Slots :
     (Answered(r) /\ req[r].in.edge = "pass" /\ ~HasValidToken(req[r].in))
     => req[r].reply.status = 401

\* C4: a request to a client or venue route that gets past the edge
\* middleware without the valid token of a stored user is answered 401; no
\* request without one reaches a route handler, and the clients and venues
\* change only in a step of a request that carries one; GET /api is
\* answered 200 and every other unrouted path 404 whatever the token.
C4_ClientVenueRoutesNeedToken ==
  /\ [](\A r \in Slots :
          /\ ~HasValidToken(req[r].in) => ~req[r].handler
          /\ (Answered(r) /\ req[r].in.edge = "pass" /\ Routed(req[r].in)
                /\ ~HasValidToken(req[r].in))
             => req[r].reply.status = 401
          /\ (Answered(r) /\ req[r].in.edge = "pass" /\ ~Routed(req[r].in))
             => req[r].reply.status =
                  IF req[r].in.path = "api" /\ req[r].in.method = "GET" THEN 200 ELSE 404)
  /\ [][(clients' # clients \/ venues' # venues)
          => \E r \in Slots :
                /\ HasValidToken(req[r].in) /\ req[r].handler
                /\ req'[r].pc = "done" /\ req[r].pc = "write"]_vars

C4_Witness ==
  \E r \in Slots :
     /\ Answered(r)
     /\ req[r].in.method = "DELETE" /\ req[r].in.path = "clients/:id"
     /\ req[r].in.edge = "pass"
     /\ req[r].in.token = GhostToken
     /\ req[r].in.id \in DOMAIN clients
     /\ req[r].reply.status = 401

\* C5: a GET, PUT or DELETE of a consultant on a client or venue that
\* another user created is answered 403.
C5_ConsultantOwnRecordsOnly ==
  \A r \in Slots :
     (/\ Answered(r)
      /\ IsItem(req[r].in.path)
      /\ Admitted(req[r].in)
      /\ req[r].in.token.role = "consultant"
      /\ req[r].found \notin {0, req[r].in.token.id})
     => req[r].reply.status = 403

\* C6: a GET, PUT or DELETE that arrives for an id whose DELETE has been
\* answered 200 is answered 404 NOT_FOUND, and no such id is stored again.
C6_DeletedStaysGone ==
  /\ \A r \in Slots :
        (/\ Answered(r)
         /\ IsItem(req[r].in.path)
         /\ Admitted(req[r].in)
         /\ req[r].goneAtArrival)
        => /\ req[r].reply.status = 404
           /\ req[r].reply.body.error.code = "NOT_FOUND"
  /\ \A d \in deleted : ~Stored(d[1], d[2])

C6_Witness ==
  \E r \in Slots :
     /\ Answered(r)
     /\ req[r].in.method = "PUT" /\ req[r].in.path = "venues/:id"
     /\ Admitted(req[r].in)
     /\ req[r].goneAtArrival
     /\ req[r].reply.status = 404

\* C9: a PUT or DELETE whose database write finds the record missing is
\* answered with the translator's 404 NOT_FOUND.
C9_MissingRecordIsNotFound ==
  \A r \in Slots :
     (Answered(r) /\ req[r].thrown = "P2025")
     => /\ req[r].reply.status = 404
        /\ req[r].reply.body.error.code = "NOT_FOUND"

OptionalFields == {"company", "contactName", "email", "phone", "notes"}
NullOrText(v) == v = Null \/ (IsString(v) /\ v # "")

\* C7: every stored client's company, contactName, email, phone and notes
\* is null or a non-empty string, and the row a POST with only a name
\* created and returned has all five null.
C7_OptionalFieldsNullOrText ==
  /\ \A c \in DOMAIN clients : \A f \in OptionalFields : NullOrText(clients[c][f])
  /\ \A r \in Slots :
        (/\ Answered(r)
         /\ req[r].in.method = "POST" /\ req[r].in.path = "clients"
         /\ Admitted(req[r].in)
         /\ \A f \in OptionalFields : req[r].in.body[f] = Undef)
        => /\ req[r].reply.status = 201
           /\ \A f \in OptionalFields : req[r].reply.body.data.row[f] = Null

C7_Witness ==
  \E r \in Slots :
     /\ Answered(r)
     /\ req[r].in.method = "PUT" /\ req[r].in.path = "clients/:id"
     /\ req[r].in.body.company = "" /\ req[r].in.body.notes = ""
     /\ req[r].reply.status = 200
     /\ clients[req[r].in.id].company = Null
     /\ clients[req[r].in.id].email = "a@b.c"

\* C8: no two User rows hold the same email; a login whose lookup found a
\* row updates that row, and no login whose email has a row when its write
\* runs adds a row.
C8_OneUserPerEmail ==
  /\ [](\A u, v \in DOMAIN users : users[u].email = users[v].email => u = v)
  /\ [][\A l \in DOMAIN login :
          (login[l].pc = "write" /\ login'[l].pc = "done")
          => /\ EmailTaken(login[l].email) => DOMAIN users' = DOMAIN users
             /\ login[l].found # 0
                => /\ users'[login[l].found].email = login[l].email
                   /\ users'[login[l].found].provider = login[l].provider
                   /\ users'[login[l].found].name = login[l].name
                   /\ login'[l].reply.status = 302]_vars

C8_Witness ==
  \E l, k \in DOMAIN login :
     /\ l # k
     /\ login[l].pc = "done" /\ login[k].pc = "done"
     /\ login[l].email = NewEmail /\ login[k].email = NewEmail
     /\ login[l].found = 0 /\ login[k].found = 0
     /\ login[l].wrote # 0 /\ login[k].hadRow

\* C10 as the specification words it: the error object of the reply to a
\* unique-constraint violation has a field entry naming the column.
C10_ConflictCarriesField ==
  (/\ fault.raised
   /\ fault.err.name = "PrismaClientKnownRequestError" /\ fault.err.code = "P2002"
   /\ Len(fault.err.target) > 0)
  => /\ fault.reply.status = 409
     /\ fault.reply.body.error.code = "CONFLICT"
     /\ "field" \in DOMAIN fault.reply.body.error
     /\ fault.reply.body.error.field = fault.err.target[1]

\* C10: a unique-constraint violation is answered 409 CONFLICT; the error
\* object has no field entry, and its details name the first colliding
\* column (the word 'field' when the database names none) and the
\* constraint 'unique'.
C10_ConflictNamesColumnInDetails ==
  (/\ fault.raised
   /\ fault.err.name = "PrismaClientKnownRequestError" /\ fault.err.code = "P2002")
  => /\ fault.reply.status = 409
     /\ fault.reply.body.success = FALSE
     /\ fault.reply.body.error.code = "CONFLICT"
     /\ DOMAIN fault.reply.body.error = {"code", "message", "details"}
     /\ fault.reply.body.error.details.constraint = "unique"
     /\ fault.reply.body.error.details.field =
          (IF Len(fault.err.target) > 0 THEN fault.err.target[1] ELSE "field")
     /\ fault.reply.body.error.message[2] = fault.reply.body.error.details.field

C10_Witness ==
  /\ fault.raised
  /\ fault.err.name = "PrismaClientKnownRequestError" /\ fault.err.code = "P2002"
  /\ fault.err.target = <<"email">>
  /\ fault.reply.status = 409

\* C11: the reply to a database error has the status and the code its
\* database error code fixes: P2002 409 CONFLICT, P2025 404 NOT_FOUND,
\* P2003 and P2014 400 BAD_REQUEST, any other code 500 INTERNAL_ERROR.
StatusAndCode(code) ==
  CASE code = "P2002" -> <<409, "CONFLICT">>
    [] code = "P2025" -> <<404, "NOT_FOUND">>
    [] code \in {"P2003", "P2014"} -> <<400, "BAD_REQUEST">>
    [] OTHER -> <<500, "INTERNAL_ERROR">>
IsDatabaseError(err) == err.name = "PrismaClientKnownRequestError"
C11_DatabaseCodeFixesReply ==
  (fault.raised /\ IsDatabaseError(fault.err))
    => <<fault.reply.status, fault.reply.body.error.code>> = StatusAndCode(fault.err.code)
C11_Witness ==
  /\ fault.raised
  /\ IsDatabaseError(fault.err)
  /\ fault.err.code = "P2003"
  /\ fault.reply.status = 400

\* C12: no reply to a request whose database call failed contains any
\* part of the message of the error the database threw.
Parts(text) == {text[i] : i \in DOMAIN text}
C12_NoDatabaseTextInReply ==
  fault.raised => Parts(fault.reply.body.error.message) \cap Parts(fault.err.message) = {}

\* C13: every reply with status 400 or above has success false, an error
\* object with code and message, and a top-level timestamp and path.
HasErrorEnvelope(reply) ==
  /\ {"success", "error", "timestamp", "path"} \subseteq DOMAIN reply.body
  /\ reply.body.success = FALSE
  /\ {"code", "message"} \subseteq DOMAIN reply.body.error
C13_ErrorRepliesShareEnvelope ==
  \A r \in Slots :
    (req[r].pc = "done" /\ req[r].reply.status >= 400) => HasErrorEnvelope(req[r].reply)

\* C14: the step that answers POST /auth/logout leaves every table and
\* every login as it was, and a request to a route that carries the token
\* of a stored user who has logged out is authenticated as before: it is
\* never answered 401.
LogoutAnswered(r) ==
  /\ req[r].pc = "auth" /\ IsLogout(req[r].in)
  /\ req'[r].pc = "done" /\ req'[r].reply = LogoutReply
C14_LogoutRevokesNothing ==
  /\ [][\A r \in Slots : LogoutAnswered(r) => UNCHANGED <<db, deleted, login>>]_vars
  /\ [](\A r \in Slots :
          (Answered(r) /\ req[r].in.edge = "pass" /\ Routed(req[r].in)
             /\ HasValidToken(req[r].in) /\ req[r].in.token.id \in loggedOut)
            => req[r].reply.status # 401)
C14_Witness ==
  /\ Answered(1)
  /\ ~IsLogout(req[1].in)
  /\ req[1].in.token.id \in loggedOut
  /\ req[1].handler
  /\ req[1].reply.status = 200

\* C15: canDeleteClient and canDeleteVenue return canDelete true and no
\* reason exactly when both counts of the id are 0, as they are for an id
\* with no row; otherwise canDelete false and a reason that names the
\* record's kind and states both counts.
IsGuardCall == calc.fn \in {"canDeleteClient", "canDeleteVenue"}
C15_GuardCountsBoth ==
  IsGuardCall =>
    LET first == calc.args.first
        second == calc.args.second
        out == calc.out
    IN /\ out.canDelete <=> (first = 0 /\ second = 0)
       /\ out.canDelete => DOMAIN out = {"canDelete"}
       /\ ~calc.args.stored => (out.canDelete /\ first = 0 /\ second = 0)
       /\ ~out.canDelete =>
            /\ DOMAIN out = {"canDelete", "reason"}
            /\ out.reason =
                 <<IF calc.fn = "canDeleteClient" THEN "Client" ELSE "Venue", " has ",
                   ToString(first), " proposal(s) and ", ToString(second), " booking(s)">>
C15_Witness ==
  /\ calc.fn = "canDeleteVenue"
  /\ calc.args.stored
  /\ calc.args.first = 0 /\ calc.args.second > 0
  /\ ~calc.out.canDelete

\* C16: createPaginatedResult returns data, page, limit and total as given,
\* totalPages the least number of pages of limit rows that hold total
\* rows, hasNext exactly when page is below totalPages and hasPrev exactly
\* when page is above 1.
C16_PaginatedResultCounts ==
  calc.fn = "createPaginatedResult" =>
    LET a == calc.args
        p == calc.out.pagination
    IN /\ calc.out.data = a.data
       /\ p.page = a.page /\ p.limit = a.limit /\ p.total = a.total
       /\ p.totalPages * a.limit >= a.total
       /\ (p.totalPages - 1) * a.limit < a.total
       /\ p.hasNext <=> a.page < p.totalPages
       /\ p.hasPrev <=> a.page > 1
       /\ a.page = 1 => ~p.hasPrev
       /\ a.page = p.totalPages => ~p.hasNext
C16_Witness ==
  /\ calc.fn = "createPaginatedResult"
  /\ calc.args.total = 25 /\ calc.args.page = 2 /\ calc.args.limit = 5
  /\ calc.out.pagination.totalPages = 5
  /\ calc.out.pagination.hasNext /\ calc.out.pagination.hasPrev

\* C17: applyPagination returns page at least 1, limit from 1 to 100,
\* take equal to limit and skip equal to (page - 1) * limit for every
\* input; a missing page becomes 1, a missing limit 10, a limit above 100
\* becomes 100.
C17_PaginationWithinRange ==
  calc.fn = "applyPagination" =>
    LET a == calc.args
        out == calc.out
    IN /\ out.page >= 1
       /\ out.limit >= 1 /\ out.limit <= 100
       /\ out.take = out.limit
       /\ out.skip = (out.page - 1) * out.limit
       /\ a.page = Missing => out.page = 1
       /\ a.limit = Missing => out.limit = 10
       /\ (a.limit.kind # "undefined" /\ a.limit.n > 100) => out.limit = 100
C17_Witness ==
  /\ calc.fn = "applyPagination"
  /\ calc.args.page = Number(-1)
  /\ calc.args.limit = Number(101)
  /\ calc.out.page = 1 /\ calc.out.limit = 100

\* C18: GET /api/clients with neither page nor limit in its query answers
\* with pagination page 1 and limit 20, and with at most 20 records.
C18_ClientListDefaultsToTwenty ==
  \A r \in Slots :
    (Answered(r) /\ req[r].in.method = "GET" /\ req[r].in.path = "clients"
       /\ req[r].in.query = NoQuery /\ req[r].reply.status = 200)
      => /\ req[r].reply.body.data.pagination.page = 1
         /\ req[r].reply.body.data.pagination.limit = 20
         /\ Cardinality(req[r].reply.body.data.data) <= 20

\* C19: hasPermission is true exactly when the permission is in the set
\* of the user's role; an admin has every permission, whatever a
\* consultant has an admin has too, and a user whose role is neither has
\* none.
C19_PermissionFollowsRole ==
  calc.fn = "hasPermission" =>
    LET role == calc.args.user.role
        permission == calc.args.permission
    IN /\ calc.out <=> (role \in UserRole /\ permission \in RolePermissions(role))
       /\ role = "admin" => calc.out
       /\ (role = "consultant" /\ calc.out) => permission \in RolePermissions("admin")
       /\ role \notin UserRole => ~calc.out
       /\ Permission \subseteq RolePermissions("admin")
       /\ RolePermissions("consultant") \subseteq RolePermissions("admin")
C19_Witness ==
  /\ calc.fn = "hasPermission"
  /\ calc.args.user.role = "guest"
  /\ calc.args.permission = "view_client"
  /\ ~calc.out

\* C20: canAccessOwnResource is true exactly when the user is an admin or
\* has the creator's id; requireResourceAccess calls next for exactly
\* those users and creators, answers 403 for every other creator and 404
\* when the lookup gives null.
MayAccess(user, lookup) == user.role = "admin" \/ user.id = lookup.id
C20_AccessIsAdminOrCreator ==
  /\ calc.fn = "canAccessOwnResource" =>
       (calc.out <=> MayAccess(calc.args.user, calc.args.lookup))
  /\ (calc.fn = "requireResourceAccess" /\ calc.args.lookup.kind = "id") =>
       /\ calc.out.next <=> MayAccess(calc.args.user, calc.args.lookup)
       /\ calc.out.next <=>
            CanAccessOwnResource(calc.args.user, calc.args.lookup.id)
       /\ ~calc.out.next => calc.out.reply.status = 403
  /\ (calc.fn = "requireResourceAccess" /\ calc.args.lookup.kind = "null") =>
       (~calc.out.next /\ calc.out.reply.status = 404)
C20_Witness ==
  /\ calc.fn = "requireResourceAccess"
  /\ calc.args.user.role = "admin"
  /\ calc.args.lookup.kind = "id"
  /\ calc.args.lookup.id # calc.args.user.id
  /\ calc.out.next

\* C21: a request to a route is answered 401 MISSING_TOKEN when it has no
\* token, 401 INVALID_TOKEN when its token fails verification, 401
\* USER_NOT_FOUND when its token's user has no row, each time without the
\* next handler; in every other case the next handler runs with req.user
\* set from the token.
RefusedAs(r, code) ==
  /\ req[r].reply.status = 401
  /\ req[r].reply.body.error.code = code
  /\ req[r].user = NoUser
  /\ ~req[r].handler
C21_TokenDecidesAdmission ==
  \A r \in Slots :
    (Answered(r) /\ req[r].in.edge = "pass" /\ Routed(req[r].in)) =>
      LET token == req[r].in.token
      IN CASE token.kind \in {"absent", "nosecond"} -> RefusedAs(r, "MISSING_TOKEN")
           [] token.kind = "bad" -> RefusedAs(r, "INVALID_TOKEN")
           [] token.kind = "valid" /\ token.id \notin DOMAIN users ->
                RefusedAs(r, "USER_NOT_FOUND")
           [] OTHER -> /\ req[r].user = [id |-> token.id, role |-> token.role]
                       /\ req[r].reply.status # 401

\* C22: in one window each IP has at most 100 requests to /api paths and
\* at most 10 to /auth paths passed on, whatever the other IPs send; every
\* request counted beyond that is answered 429 RATE_LIMIT_EXCEEDED; and
\* when the window ends the count starts again from nothing.
WindowLimit(limiter) == IF limiter = "auth" THEN 10 ELSE 100
C22_FixedWindowPerIp ==
  /\ [](\A limiter \in Limiters, ip \in 1..MaxIps :
          LET w == window[limiter][ip]
          IN /\ w.passed <= WindowLimit(limiter)
             /\ w.passed = Min(w.hits, WindowLimit(limiter))
             /\ w.refused = w.hits - w.passed
             /\ RateLimitReply(limiter, "/").status = 429
             /\ RateLimitReply(limiter, "/").body.error.code = "RATE_LIMIT_EXCEEDED")
  /\ [][\A limiter \in Limiters, ip \in 1..MaxIps :
          window'[limiter][ip].hits < window[limiter][ip].hits
            => window'[limiter][ip] = [hits |-> 0, passed |-> 0, refused |-> 0]]_vars
C22_Witness ==
  /\ window["api"][1].passed = 100 /\ window["api"][1].refused > 0
  /\ window["auth"][1].passed = 10 /\ window["auth"][1].refused > 0
  /\ window["api"][2].hits = 0

\* C23: a request whose body is over the 10mb limit is answered 413,
\* whichever of the body parser and the body-size middleware refuses it.
C23_TooLargeIsPayloadTooLarge ==
  \A r \in Slots :
    (Answered(r) /\ req[r].in.edge \in {"toolarge", "toolargeraw"})
      => req[r].reply.status = 413

\* C24: every stored proposal's totalValue is the sum of quantity x unit
\* price over the charge lines of its proposal venues, every line's total
\* is its quantity x unit price, and expectedCommission is total x rate /
\* 100, the rate being the proposal venue's override when it has one and
\* its venue's standard rate otherwise.
RECURSIVE SumOfLines(_)
SumOfLines(lines) ==
  IF lines = <<>> THEN 0
  ELSE Head(lines).quantity * Head(lines).unitPrice + SumOfLines(Tail(lines))
RECURSIVE SumOver(_, _)
SumOver(f, set) ==
  IF set = {} THEN 0
  ELSE LET x == CHOOSE x \in set : TRUE IN f[x] + SumOver(f, set \ {x})
LinksOf(p) == {x \in DOMAIN proposalVenues : proposalVenues[x].proposalId = p}
RateOf(x) ==
  IF "commissionOverride" \in DOMAIN proposalVenues[x]
    THEN proposalVenues[x].commissionOverride
    ELSE venues[proposalVenues[x].venueId].standardCommission
C24_TotalsFollowChargeLines ==
  /\ \A x \in DOMAIN proposalVenues :
       \A i \in DOMAIN proposalVenues[x].chargeLines :
         LET line == proposalVenues[x].chargeLines[i]
         IN line.total = line.quantity * line.unitPrice
  /\ \A p \in DOMAIN proposals :
       /\ proposals[p].totalValue =
            SumOver([x \in LinksOf(p) |-> SumOfLines(proposalVenues[x].chargeLines)],
                    LinksOf(p))
       /\ proposals[p].expectedCommission * 10000 =
            SumOver([x \in LinksOf(p) |->
                       SumOfLines(proposalVenues[x].chargeLines) * RateOf(x)],
                    LinksOf(p))

\* C25: a request that reaches its route's validation with a body, query
\* or parameter the schema refuses is answered 400 VALIDATION_ERROR, the
\* details naming every refused field, and its handler does not run; the
\* step that answers it leaves every table as it was.
Refused(keys, ok(_)) == {keys[i] : i \in {j \in DOMAIN keys : ~ok(keys[j])}}
RefusedFields(in) ==
  {<<"", k>> : k \in
     IF in.method \notin {"POST", "PUT"} THEN {}
     ELSE IF IsClientPath(in.path)
       THEN Refused(ClientKeys, LAMBDA k : ClientKeyOk(in.body, k, in.method = "POST"))
       ELSE Refused(VenueKeys, LAMBDA k : VenueKeyOk(in.body, k, in.method = "POST"))}
  \cup {<<"query.", k>> : k \in
          IF in.method = "GET" /\ IsCollection(in.path)
            THEN Refused(QueryKeys, LAMBDA k : QueryKeyOk(in.query, k)) ELSE {}}
  \cup (IF IsItem(in.path) /\ ~ValidId(in.id) THEN {<<"params.", "id">>} ELSE {})
IsValidationReply(reply) ==
  reply.status = 400 /\ reply.body.error.code = "VALIDATION_ERROR"
C25_RefusedRequestChangesNothing ==
  /\ [](\A r \in Slots :
          (Answered(r) /\ req[r].in.edge = "pass" /\ Routed(req[r].in)
             /\ ~IsLogout(req[r].in)
             /\ HasValidToken(req[r].in) /\ RefusedFields(req[r].in) # {})
            => /\ IsValidationReply(req[r].reply)
               /\ Parts(req[r].reply.body.error.details) = RefusedFields(req[r].in)
               /\ ~req[r].handler)
  /\ [][\A r \in Slots :
          (req[r].pc # "done" /\ req'[r].pc = "done" /\ req'[r].reply.status = 400)
            => UNCHANGED db]_vars
C25_Witness ==
  /\ Answered(1)
  /\ IsValidationReply(req[1].reply)
  /\ req[1].in.method = "POST"
  /\ Parts(req[1].reply.body.error.details) = {<<"", "name">>, <<"", "email">>}
  /\ clients = Empty

\* C26: the step in which a PUT to a client or a venue is answered 200
\* changes, in the row the request names, only fields its body carries:
\* every other field of that row, every other client and venue, and every
\* row of the other tables stay as they were.
PutAnswered(r) ==
  /\ req[r].pc = "write" /\ req[r].in.method = "PUT"
  /\ req'[r].pc = "done" /\ req'[r].reply.status = 200
Carried(in, path, id, f) ==
  /\ in.path = path /\ in.id = id
  /\ f \in DOMAIN in.body /\ in.body[f] # Undef
OutOfRange(c) ==
  c # Undef /\ ~(IsNumeral(c) /\ Thousandths(c) \in 0..100000)
CreatedByRequester(before, after) ==
  /\ \A x \in DOMAIN after \ DOMAIN before :
       \E r \in Slots :
         /\ req[r].pc = "write" /\ req[r].in.method = "POST" /\ req'[r].pc = "done"
         /\ after[x].createdBy = req[r].in.token.id
  /\ \A x \in DOMAIN after \cap DOMAIN before : after[x].createdBy = before[x].createdBy
C28_CreatedByIsRequester ==
  [][CreatedByRequester(clients, clients') /\ CreatedByRequester(venues, venues')]_vars
C28_Witness ==
  /\ Answered(1)
  /\ req[1].in.method = "PUT" /\ req[1].in.path = "clients/:id"
  /\ req[1].in.token = AdminToken
  /\ req[1].reply.status = 200
  /\ clients[1].company = "b"
  /\ clients[1].createdBy = 2

\* C29: the user attached to an authenticated request is the id and the
\* role of its token; two consecutive requests with the same token to the
\* same requireRole get the same outcome, whatever role the database
\* holds at each; a 200 of /auth/refresh and the redirect of a login
\* callback both carry a token with the role stored at that moment.
IssuedAtLogin(l) ==
  login[l].pc = "write" /\ login'[l].pc = "done" /\ login'[l].reply.status = 302
C29_TokenClaimsDecide ==
  /\ [](calc.fn = "requireRole" =>
          /\ calc.user # NoUser =>
               calc.user = [id |-> calc.args.token.id, role |-> calc.args.token.role]
          /\ (calc.before.seen /\ calc.before.args = calc.args) =>
               calc.before.out = calc.out)
  /\ [][/\ (calc'.fn = "refresh" /\ calc' # calc /\ calc'.out.status = 200) =>
            calc'.out.body.data.token =
              Token("valid", calc'.args.token.id, users[calc'.args.token.id].role)
        /\ \A l \in DOMAIN login :
             IssuedAtLogin(l) =>
               login'[l].reply.body.token.role
                 = users'[login'[l].reply.body.token.id].role]_vars
C29_Witness ==
  /\ calc.fn = "requireRole"
  /\ calc.args = [token |-> AdminToken, roles |-> {"admin"}]
  /\ calc.before.seen /\ calc.before.args = calc.args
  /\ calc.before.stored = "admin" /\ calc.stored = "consultant"
  /\ calc.out.next
\* C29 as stated: no token but that of /auth/refresh carries the role
\* currently stored, so the token of a login callback does not.
C29_OnlyRefreshIssuesStoredRole ==
  [][\A l \in DOMAIN login :
       IssuedAtLogin(l) =>
         login'[l].reply.body.token.role # users'[login'[l].reply.body.token.id].role]_vars

\* C30: the step in which a login writes changes, for an email that has a
\* row, nothing but the name, provider and providerId of that row: every
\* row keeps its id, email and role, every other row and every other
\* table stays as it was; a row the step adds is that of the login's
\* email, which had none, and has role consultant.
LoginWrites(l) == login[l].pc = "write" /\ login'[l].pc = "done"
C30_LoginKeepsIdEmailRole ==
  [][\A l \in DOMAIN login :
       LoginWrites(l) =>
         /\ UNCHANGED <<clients, venues, proposals, proposalVenues, bookings>>
         /\ \A u \in DOMAIN users :
              /\ u \in DOMAIN users'
              /\ users'[u].email = users[u].email
              /\ users'[u].role = users[u].role
              /\ users[u].email # login[l].email => users'[u] = users[u]
         /\ \A u \in DOMAIN users' \ DOMAIN users :
              /\ ~EmailTaken(login[l].email)
              /\ users'[u].email = login[l].email
              /\ users'[u].role = "consultant"
         /\ EmailTaken(login[l].email) => DOMAIN users' = DOMAIN users]_vars
C30_Witness ==
  /\ login[1].pc = "done" /\ login[1].wrote = 1 /\ login[1].provider = "microsoft"
  /\ users[1] = [SeedUsers[1] EXCEPT !.name = "Profile Name", !.provider = "microsoft",
                                     !.providerId = <<"microsoft", "-id">>]
  /\ 3 \in DOMAIN users /\ users[3].role = "consultant" /\ users[3].email = NewEmail

====
